---- MODULE Spec2Model ----
(***************************************************************************)
(* Pippin: the per-partition engine (src/src/detail/partition.rs) and the  *)
(* partition state (src/src/detail/states.rs) as a state machine.          *)
(*                                                                         *)
(* A Sum is a natural number below 2^SumBits and permute is bitwise        *)
(* exclusive-or.  An element is a small number whose sum is itself.  An    *)
(* EltId is part * EltSpan + num.  The persistence adapter is the          *)
(* in-memory PartitionStreams of src/tests/partition-ops.rs, extended with *)
(* write failures of the stream it hands out.                              *)
(***************************************************************************)
EXTENDS Integers, Sequences, FiniteSets, TLC

----------------------------------------------------------------------------
(* Bounds of the model *)

\* width of a Sum in bits
SumBits == 3
\* the sums a caller writes by hand into a commit or a parent list are
\* below 2^CallerSumBits
CallerSumBits == 2
\* SpecMerge: element payloads are 1 .. MaxMergeElt
MaxMergeElt == 4
\* SpecMerge: largest length of the unsaved queue
MaxMergeQueue == 4
\* SpecProbe: largest number of snapshot slots of the adapter
MaxProbeSs == 3
\* element payloads are 1..MaxElt
MaxElt == 2
\* element numbers run over 0 .. EltSpan - 1
EltSpan == 2
\* the number of a second partition, where moved elements go
OtherPart == 2
\* Spec: largest number of states the partition holds
MaxStates == 4
\* Spec: largest length of the unsaved queue
MaxUnsaved == 1
\* Spec: largest number of snapshot slots of the adapter
MaxSs == 2
\* Spec: largest number of commit logs per snapshot
MaxCl == 1
\* Spec: the policy's commit counter stays within MaxCount of 0 or of
\* RequireCommits
MaxCount == 2
\* Spec: largest number of streams that a failed write left short
MaxTorn == 1
\* SpecPush, SpecWrite, SpecRT: largest length of the unsaved queue
MaxQueue == 3
\* SpecPush, SpecWrite, SpecRT: largest number of commits pushed
MaxPushes == 3
\* SpecWrite, SpecRT: largest number of commit logs per snapshot
MaxLogs == 2
\* names of up to this many bytes are tried
MaxName == 17
\* a header has up to this many remarks and this many user fields
MaxRemarks == 2
MaxFields == 1
\* the notes of a call of locate are counted up to this number
MaxNotes == 3
\* the strings looked up have up to this many characters
MaxPrefix == 3
\* the elements put into a RepoState are 1 .. MaxRepoElt
MaxRepoElt == 3
\* SpecPolicy: the pushes made before its first state
WarmPushes == 24

----------------------------------------------------------------------------
(* Program constants *)

\* SnapshotPolicy::require sets commits to this
RequireCommits == 1000
\* SnapshotPolicy::snapshot: commits * CommitWeight + edits > SnapshotLimit
CommitWeight == 5
SnapshotLimit == 150
\* the partition number Partition::create uses
ThisPart == 1
\* write and write_snapshot give up when a number above this one is taken
ProbeLimit == 1000000
\* the longest repository name, in bytes
NameLimit == 16
\* the bytes of a checksum
SUM_BYTES == 32

----------------------------------------------------------------------------
(* Sums, elements, identifiers *)

Pow2(n) == IF n = 0 THEN 1 ELSE IF n = 1 THEN 2 ELSE IF n = 2 THEN 4 ELSE IF n = 3 THEN 8 ELSE 16

SumSpan == Pow2(SumBits)
Sums == 0 .. (Pow2(CallerSumBits) - 1)
ZeroSum == 0

RECURSIVE Xor(_, _)
Xor(a, b) ==
    IF a = 0 THEN b
    ELSE IF b = 0 THEN a
    ELSE (((a % 2) + (b % 2)) % 2) + (2 * Xor(a \div 2, b \div 2))

\* Sum::permute
Permute(a, b) == Xor(a, b)

Elts == 1 .. MaxElt
\* ElementT::sum
ElementSum(e) == e % SumSpan

EltIdOf(part, num) == (part * EltSpan) + (num % EltSpan)
PartOf(id) == id \div EltSpan
EltNum(id) == id % EltSpan
NextElt(id) == EltIdOf(PartOf(id), EltNum(id) + 1)
OwnIds == { EltIdOf(ThisPart, n) : n \in 0 .. (EltSpan - 1) }
AllIds == OwnIds \cup { EltIdOf(OtherPart, 0) }

----------------------------------------------------------------------------
(* Maps *)

EmptyMap == [i \in {} |-> 0]
MapPut(m, k, v) == [i \in (DOMAIN m) \cup {k} |-> IF i = k THEN v ELSE m[i]]
MapDel(m, k) == [i \in (DOMAIN m) \ {k} |-> m[i]]

\* the element of a one-element set: in The({ F(x) : x \in {e} }) the value
\* of e is computed once, however often F uses x
The(S) == CHOOSE x \in S : TRUE

RECURSIVE SetToSeq(_)
SetToSeq(S) ==
    IF S = {} THEN <<>>
    ELSE LET m == CHOOSE x \in S : \A y \in S : x <= y
         IN  <<m>> \o SetToSeq(S \ {m})

RECURSIVE FoldSums(_, _)
\* the permute-fold of the sums of the elements of an element map
FoldSums(elts, ids) ==
    IF ids = {} THEN ZeroSum
    ELSE LET i == CHOOSE x \in ids : TRUE
         IN  Permute(ElementSum(elts[i]), FoldSums(elts, ids \ {i}))
EltsSum(elts) == FoldSums(elts, DOMAIN elts)

----------------------------------------------------------------------------
(* PartitionState *)

\* PartitionState::new
NewState(part_id) ==
    [part_id |-> part_id, parents |-> <<>>, statesum |-> ZeroSum,
     elts |-> EmptyMap, moved |-> EmptyMap]

\* PartitionState::clone_child
clone_child(s) ==
    [part_id |-> s.part_id, parents |-> <<s.statesum>>, statesum |-> s.statesum,
     elts |-> s.elts, moved |-> s.moved]

\* PartitionState::child_with_parents (the caller satisfies the assertion
\* parents.len() > 0 && parents[0] == self.statesum)
child_with_parents(s, parents) ==
    [part_id |-> s.part_id, parents |-> parents, statesum |-> s.statesum,
     elts |-> s.elts, moved |-> s.moved]

\* PartitionState::insert_with_id
insert_with_id(s, id, e) ==
    IF PartOf(id) # s.part_id THEN [state |-> s, res |-> "WrongPartition"]
    ELSE IF id \in DOMAIN s.elts THEN [state |-> s, res |-> "IdClash"]
    ELSE [state |-> [s EXCEPT !.statesum = Permute(s.statesum, ElementSum(e)),
                              !.elts = MapPut(s.elts, id, e)],
          res |-> "Ok"]

\* PartitionState::set_move
set_move(s, id, new_id) == [s EXCEPT !.moved = MapPut(s.moved, id, new_id)]

\* PartitionState::replace_rc: the sum is permuted and the element stored
\* before the old one is looked at
replace_rc(s, id, e) ==
    LET s1 == [s EXCEPT !.statesum = Permute(s.statesum, ElementSum(e)),
                        !.elts = MapPut(s.elts, id, e)]
    IN  IF id \notin DOMAIN s.elts
        THEN [state |-> s1, res |-> "NotFound"]
        ELSE [state |-> [s1 EXCEPT !.statesum =
                              Permute(s1.statesum, ElementSum(s.elts[id]))],
              res |-> "Ok"]

\* a remove that forgets the sum
remove_keeps_sum(s, id) ==
    IF id \notin DOMAIN s.elts
    THEN [state |-> s, res |-> "NotFound"]
    ELSE [state |-> [s EXCEPT !.elts = MapDel(s.elts, id)], res |-> "Ok"]

\* PartitionState::remove
remove(s, id) ==
    IF id \notin DOMAIN s.elts
    THEN [state |-> s, res |-> "NotFound"]
    ELSE [state |-> [s EXCEPT !.statesum = Permute(s.statesum, ElementSum(s.elts[id])),
                              !.elts = MapDel(s.elts, id)],
          res |-> "Ok"]

RECURSIVE GenIdFrom_elts_only(_, _, _)
\* a probe loop that takes an id for free when no element lives under it
GenIdFrom_elts_only(s, initial, id) ==
    IF id \notin DOMAIN s.elts
    THEN [id |-> id, res |-> "Ok"]
    ELSE IF NextElt(id) = initial
         THEN [id |-> id, res |-> "IdGenFailure"]
         ELSE GenIdFrom_elts_only(s, initial, NextElt(id))

RECURSIVE GenIdFrom(_, _, _)
\* the probe loop of PartitionState::gen_id, from the id it has reached
GenIdFrom(s, initial, id) ==
    IF id \notin DOMAIN s.elts /\ id \notin DOMAIN s.moved
    THEN [id |-> id, res |-> "Ok"]
    ELSE IF NextElt(id) = initial
         THEN [id |-> id, res |-> "IdGenFailure"]
         ELSE GenIdFrom(s, initial, NextElt(id))

\* PartitionState::gen_id, r the random sample
gen_id(s, r) == GenIdFrom(s, EltIdOf(s.part_id, r), EltIdOf(s.part_id, r))

\* State::insert_rc of PartitionState
insert_rc(s, e, r) ==
    LET g == gen_id(s, r)
    IN  IF g.res # "Ok" THEN [state |-> s, res |-> g.res, id |-> g.id]
        ELSE LET i == insert_with_id(s, g.id, e)
             IN  [state |-> i.state, res |-> i.res, id |-> g.id]

----------------------------------------------------------------------------
(* Commits *)

InsertEdit(id, e) == [kind |-> "Insert", id |-> id, elt |-> e, prior |-> 0, new_id |-> 0]
RemoveEdit(id, prior) == [kind |-> "Remove", id |-> id, elt |-> 0, prior |-> prior, new_id |-> 0]
ReplaceEdit(id, prior, e) == [kind |-> "Replace", id |-> id, elt |-> e, prior |-> prior, new_id |-> 0]
NoteMoveEdit(id, new_id) == [kind |-> "NoteMove", id |-> id, elt |-> 0, prior |-> 0, new_id |-> new_id]

\* the edits Op(id) for the ids of a sorted sequence, in that order
EditSeq(ids, edits) == [i \in 1 .. Len(ids) |-> edits[ids[i]]]

\* the edit list of Commit::from_diff: removals, insertions, replacements,
\* then move notes, each in ascending id order
DiffChanges(parent, child) ==
    LET gone == (DOMAIN parent.elts) \ (DOMAIN child.elts)
        new == (DOMAIN child.elts) \ (DOMAIN parent.elts)
        both == { i \in (DOMAIN parent.elts) \cap (DOMAIN child.elts) :
                      ElementSum(parent.elts[i]) # ElementSum(child.elts[i]) }
        mv == { i \in DOMAIN child.moved :
                      i \notin DOMAIN parent.moved \/ parent.moved[i] # child.moved[i] }
        Rem == [i \in gone |-> RemoveEdit(i, ElementSum(parent.elts[i]))]
        Ins == [i \in new |-> InsertEdit(i, child.elts[i])]
        Rep == [i \in both |-> ReplaceEdit(i, ElementSum(parent.elts[i]), child.elts[i])]
        Mov == [i \in mv |-> NoteMoveEdit(i, child.moved[i])]
    IN  EditSeq(SetToSeq(gone), Rem) \o EditSeq(SetToSeq(new), Ins)
          \o EditSeq(SetToSeq(both), Rep) \o EditSeq(SetToSeq(mv), Mov)

\* Commit::from_diff: no commit (an empty sequence) when nothing changed,
\* else one commit with the child's parents and sum
from_diff(parent, child) ==
    LET ch == DiffChanges(parent, child)
    IN  IF ch = <<>> THEN <<>>
        ELSE << [parents |-> child.parents, statesum |-> child.statesum, changes |-> ch] >>

\* one edit of a commit applied to a state
ApplyEdit(s, ed) ==
    IF ed.kind = "Insert" THEN insert_with_id(s, ed.id, ed.elt)
    ELSE IF ed.kind = "Remove" THEN remove(s, ed.id)
    ELSE IF ed.kind = "Replace" THEN replace_rc(s, ed.id, ed.elt)
    ELSE [state |-> set_move(s, ed.id, ed.new_id), res |-> "Ok"]

RECURSIVE ApplyChanges(_, _, _)
ApplyChanges(s, changes, i) ==
    IF i > Len(changes) THEN [state |-> s, res |-> "Ok"]
    ELSE The({ IF r.res # "Ok" THEN [state |-> r.state, res |-> "PatchApplyFailed"]
               ELSE ApplyChanges(r.state, changes, i + 1)
               : r \in {ApplyEdit(s, changes[i])} })

\* Commit::patch: the edits in order, then the check of the resulting sum
patch(commit, s) ==
    The({ IF r.res # "Ok" THEN r
          ELSE IF r.state.statesum # commit.statesum
               THEN [state |-> r.state, res |-> "PatchApplyFailed"]
               ELSE r
          : r \in {ApplyChanges(s, commit.changes, 1)} })

\* an insert that replaces the value stored under the key
StatesInsert_replace(sts, s) == MapPut(sts, s.statesum, s)

\* HashIndexed::insert: a value whose key is present is not stored
StatesInsert(sts, s) ==
    IF s.statesum \in DOMAIN sts THEN sts ELSE MapPut(sts, s.statesum, s)

SeqToSet(q) == { q[i] : i \in 1 .. Len(q) }

----------------------------------------------------------------------------
(* Log replay *)

\* one commit of a pass: applied to a child of its first parent if that is
\* known, deferred otherwise
ReplayStep(acc, c) ==
    IF c.parents = <<>> \/ c.parents[1] \notin DOMAIN acc.states
    THEN [acc EXCEPT !.deferred = Append(@, c)]
    ELSE The({ IF r.res # "Ok"
               THEN [acc EXCEPT !.res = "PatchApplyFailed"]
               ELSE [acc EXCEPT !.states = StatesInsert(@, r.state),
                                !.tips = (@ \ SeqToSet(c.parents)) \cup {c.statesum},
                                !.edits = @ + Len(c.changes),
                                !.progress = TRUE]
               : r \in {patch(c, child_with_parents(acc.states[c.parents[1]], c.parents))} })

RECURSIVE ReplayPass(_, _, _)
\* one pass over the queue, which stops at a commit that does not apply
ReplayPass(acc, queue, i) ==
    IF i > Len(queue) \/ acc.res # "Ok" THEN acc
    ELSE The({ ReplayPass(next, queue, i + 1) : next \in {ReplayStep(acc, queue[i])} })

RECURSIVE ReplayRounds(_, _, _, _)
\* passes over what is deferred, as long as a pass applies a commit
ReplayRounds(sts, tps, queue, edits) ==
    The({ IF r.res # "Ok" \/ ~r.progress \/ r.deferred = <<>> THEN r
          ELSE ReplayRounds(r.states, r.tips, r.deferred, r.edits)
          : r \in {ReplayPass([states |-> sts, tips |-> tps, deferred |-> <<>>,
                               edits |-> edits, progress |-> FALSE, res |-> "Ok"],
                              queue, 1)} })

\* LogReplay::replay: the states and tips after the queue is applied, the
\* number of edits applied; commits left in deferred are orphans
replay(sts, tps, queue) == ReplayRounds(sts, tps, queue, 0)

----------------------------------------------------------------------------
(* The persistence adapter: io maps a snapshot number to the snapshot      *)
(* stream and the map of its commit-log streams.  A stream is the sequence *)
(* of the writes that reached it.                                          *)

SetMax(S) == CHOOSE x \in S : \A y \in S : y <= x

\* PartitionStreams::ss_len
ss_len(io) == IF DOMAIN io = {} THEN 0 ELSE SetMax(DOMAIN io) + 1

\* PartitionStreams::ss_cl_len
ss_cl_len(io, ss) ==
    IF ss \notin DOMAIN io THEN 0
    ELSE IF DOMAIN io[ss].logs = {} THEN 0
    ELSE SetMax(DOMAIN io[ss].logs) + 1

\* what a slot holds in place of a snapshot stream when the adapter knows
\* the slot by its logs only
NoStream == <<[kind |-> "nostream", val |-> <<>>]>>

\* PartitionIO::read_ss: whether it returns a stream
read_ss(io, ss) == ss \in DOMAIN io /\ io[ss].ss # NoStream

\* PartitionStreams::new_ss, for a free slot: an empty stream and no logs
new_ss(io, ss) == MapPut(io, ss, [ss |-> <<>>, logs |-> EmptyMap])

\* PartitionStreams::new_ss_cl, for a free log number of an existing slot
new_ss_cl(io, ss, cl) == [io EXCEPT ![ss].logs = MapPut(@, cl, <<>>)]

\* the writes of one operation, of which the first n reach the stream
Written(items, n) == SubSeq(items, 1, n)

HeadItem(ftype, name, part_id) ==
    [kind |-> "head", val |-> [ftype |-> ftype, name |-> name, part_id |-> part_id]]
LogStartItem == [kind |-> "logstart", val |-> [mark |-> "COMMIT LOG"]]
CommitItem(c) == [kind |-> "commit", val |-> c]
\* write_snapshot: the parents of the state are not persisted
SnapshotItem(s) ==
    [kind |-> "snapshot",
     val |-> [part_id |-> s.part_id, statesum |-> s.statesum,
              elts |-> s.elts, moved |-> s.moved]]

\* read_head on a stream: the header record, if the stream starts with one
read_head(file) ==
    IF Len(file) >= 1 /\ file[1].kind = "head"
    THEN [res |-> "Ok", head |-> file[1].val]
    ELSE [res |-> "Err", head |-> [ftype |-> "", name |-> <<>>, part_id |-> 0]]

\* Partition::verify_head
verify_head(head, self_name, self_partid) ==
    IF self_name # <<>> /\ self_name # head.name
    THEN [res |-> "Err", name |-> self_name]
    ELSE IF self_partid # head.part_id
         THEN [res |-> "Err", name |-> head.name]
         ELSE [res |-> "Ok", name |-> head.name]

\* read_snapshot after the header: a state without parents
read_snapshot(file, part_id) ==
    IF Len(file) >= 2 /\ file[2].kind = "snapshot" /\ file[2].val.part_id = part_id
    THEN [res |-> "Ok",
          state |-> [part_id |-> part_id, parents |-> <<>>,
                     statesum |-> file[2].val.statesum,
                     elts |-> file[2].val.elts, moved |-> file[2].val.moved]]
    ELSE [res |-> "Err", state |-> NewState(part_id)]

RECURSIVE ReadCommits(_, _)
ReadCommits(file, i) ==
    IF i > Len(file) THEN <<>> ELSE <<file[i].val>> \o ReadCommits(file, i + 1)

\* read_log after the header: the commits behind the commit-section marker
read_log(file) ==
    IF Len(file) >= 2 /\ file[2].kind = "logstart"
    THEN [res |-> "Ok", commits |-> ReadCommits(file, 3)]
    ELSE [res |-> "Err", commits |-> <<>>]

----------------------------------------------------------------------------
(* SnapshotPolicy *)

PolicyNew == [commits |-> 0, edits |-> 0]
PolicyRequire(pol) == [pol EXCEPT !.commits = RequireCommits]
PolicyAddCommits(pol, n) == [pol EXCEPT !.commits = @ + n]
PolicyAddEdits(pol, n) == [pol EXCEPT !.edits = @ + n]
PolicyReset(pol) == [commits |-> 0, edits |-> 0]
\* a policy that fires as soon as the limit is reached
PolicySnapshot_at_limit(pol) ==
    (pol.commits * CommitWeight) + pol.edits >= SnapshotLimit
\* SnapshotPolicy::snapshot
PolicySnapshot(pol) == (pol.commits * CommitWeight) + pol.edits > SnapshotLimit

----------------------------------------------------------------------------
(* Partition: loading *)

\* Partition::open
OpenPart(part_id) ==
    [repo_name |-> <<>>, part_id |-> part_id, ss_num |-> 0, ss_policy |-> PolicyNew,
     states |-> EmptyMap, tips |-> {}, unsaved |-> <<>>]

\* the closure load_ss of Partition::load
load_ss(p, io, ss) ==
    IF ~read_ss(io, ss) THEN [p |-> p, res |-> "false"]
    ELSE LET h == read_head(io[ss].ss)
             v == verify_head(h.head, p.repo_name, p.part_id)
             s == read_snapshot(io[ss].ss, p.part_id)
         IN  IF h.res # "Ok" THEN [p |-> p, res |-> "Err"]
             ELSE IF v.res # "Ok" \/ s.res # "Ok"
                  THEN [p |-> [p EXCEPT !.repo_name = v.name], res |-> "Err"]
                  ELSE [p |-> [p EXCEPT !.repo_name = v.name,
                                        !.tips = @ \cup {s.state.statesum},
                                        !.states = StatesInsert(@, s.state)],
                        res |-> "true"]

\* the closure load_cl of Partition::load on one log stream
LoadLog(acc, file) ==
    LET h == read_head(file)
        v == verify_head(h.head, acc.p.repo_name, acc.p.part_id)
        l == read_log(file)
    IN  IF h.res # "Ok" THEN [acc EXCEPT !.res = "Err"]
        ELSE IF v.res # "Ok" \/ l.res # "Ok"
             THEN [acc EXCEPT !.res = "Err", !.p.repo_name = v.name]
             ELSE [acc EXCEPT !.p.repo_name = v.name, !.queue = @ \o l.commits]

RECURSIVE LoadClFrom(_, _, _, _, _)
\* the closure load_cl of Partition::load from log cl of snapshot ss on, up
\* to snapshot hi (exclusive)
LoadClFrom(acc, io, ss, cl, hi) ==
    IF ss >= hi \/ acc.res # "Ok" THEN acc
    ELSE IF cl >= ss_cl_len(io, ss) THEN LoadClFrom(acc, io, ss + 1, 0, hi)
    ELSE IF cl \notin DOMAIN io[ss].logs THEN LoadClFrom(acc, io, ss, cl + 1, hi)
    ELSE The({ LoadClFrom(next, io, ss, cl + 1, hi)
               : next \in {LoadLog(acc, io[ss].logs[cl])} })

load_cl(p, io, lo, hi) == LoadClFrom([p |-> p, queue |-> <<>>, res |-> "Ok"], io, lo, 0, hi)

\* the replay of the commits that load_cl has queued, into the partition q.p
ReplayQueue(q) ==
    The({ [p |-> [q.p EXCEPT !.states = r.states, !.tips = r.tips],
           edits |-> r.edits, res |-> r.res]
          : r \in {replay(q.p.states, q.p.tips, q.queue)} })

\* one snapshot of the loop for all_history: its logs are read and replayed
LoadLogsOf(a, io, ss) ==
    IF a.res = "Err" THEN [p |-> a.p, nc |-> 0, ne |-> 0, res |-> "Err"]
    ELSE The({ IF q.res # "Ok" THEN [p |-> q.p, nc |-> 0, ne |-> 0, res |-> "Err"]
               ELSE The({ [p |-> r.p, nc |-> Len(q.queue), ne |-> r.edits,
                           res |-> IF r.res # "Ok" THEN "Err" ELSE "Ok"]
                          : r \in {ReplayQueue(q)} })
               : q \in {load_cl(a.p, io, ss, ss + 1)} })

RECURSIVE LoadAllFrom(_, _, _, _, _)
\* the loop of Partition::load for all_history, from snapshot ss on; nc and
\* ne are num_commits and num_edits
LoadAllFrom(p, io, ss, nc, ne) ==
    IF ss >= ss_len(io)
    THEN [p |-> [p EXCEPT !.ss_policy = PolicyAddEdits(PolicyAddCommits(@, nc), ne)],
          res |-> "Ok"]
    ELSE The({ IF s.res # "Ok" THEN [p |-> s.p, res |-> "Err"]
               ELSE LoadAllFrom(s.p, io, ss + 1, s.nc, s.ne)
               : s \in { LoadLogsOf(a, io, ss) : a \in {load_ss(p, io, ss)} } })

RECURSIVE FindSnapshot(_, _, _)
\* the loop of Partition::load that looks for the newest snapshot
FindSnapshot(p, io, num) ==
    The({ IF a.res = "Err" THEN [p |-> a.p, num |-> num, res |-> "Err"]
          ELSE IF a.res = "true" \/ num = 0 THEN [p |-> a.p, num |-> num, res |-> "Ok"]
          ELSE FindSnapshot(a.p, io, num - 1)
          : a \in {load_ss(p, io, num)} })

\* the latest-only branch once the logs are read: the commits are counted,
\* a partition without a tip gets the genesis state, the commits are replayed
LoadLatestReplay(q, num) ==
    LET p1 == [q.p EXCEPT !.ss_policy = PolicyAddCommits(@, Len(q.queue))]
        p2 == IF q.p.tips = {}
              THEN [p1 EXCEPT !.tips = {ZeroSum},
                              !.states = StatesInsert(@, NewState(q.p.part_id))]
              ELSE p1
    IN  IF q.res # "Ok" THEN [p |-> q.p, num |-> num, res |-> "Err"]
        ELSE The({ IF r.res # "Ok" THEN [p |-> r.p, num |-> num, res |-> "Err"]
                   ELSE [p |-> [r.p EXCEPT !.ss_policy = PolicyAddEdits(@, r.edits)],
                         num |-> num, res |-> "Ok"]
                   : r \in {ReplayQueue([p |-> p2, queue |-> q.queue, res |-> "Ok"])} })

\* the latest-only branch of Partition::load
LoadLatest(p, io) ==
    The({ IF f.res # "Ok" THEN [p |-> f.p, num |-> f.num, res |-> "Err"]
          ELSE The({ LoadLatestReplay(q, f.num)
                     : q \in {load_cl(f.p, io, f.num, ss_len(io))} })
          : f \in {FindSnapshot(p, io, ss_len(io) - 1)} })

\* what Partition::load does after either branch: ss_num is set, a snapshot
\* is required if the newest slot held none, a partition without tips is an
\* error
LoadFinish(l, io) ==
    LET p1 == [l.p EXCEPT !.ss_num = ss_len(io) - 1]
        p2 == IF l.num < ss_len(io) - 1
              THEN [p1 EXCEPT !.ss_policy = PolicyRequire(@)]
              ELSE p1
    IN  IF l.res # "Ok" THEN [p |-> l.p, res |-> "Err"]
        ELSE IF p2.tips = {} THEN [p |-> p2, res |-> "Err"]
        ELSE [p |-> p2, res |-> "Ok"]

\* Partition::load
load(p, io, all_history) ==
    IF ss_len(io) = 0 THEN [p |-> p, res |-> "Err"]
    ELSE IF all_history
         THEN The({ LoadFinish([p |-> a.p, num |-> ss_len(io) - 1, res |-> a.res], io)
                    : a \in {LoadAllFrom(p, io, 0, 0, 0)} })
         ELSE The({ LoadFinish(l, io) : l \in {LoadLatest(p, io)} })

----------------------------------------------------------------------------
(* Partition: creation, queries, pushes *)

\* Partition::create_part once the snapshot of the genesis state is written
CreatedPart(name, part_id) ==
    [repo_name |-> name, part_id |-> part_id, ss_num |-> 0, ss_policy |-> PolicyNew,
     states |-> MapPut(EmptyMap, ZeroSum, NewState(part_id)),
     tips |-> {ZeroSum}, unsaved |-> <<>>]

\* what Partition::create_part leaves in snapshot slot 0
CreatedIo(name, part_id) ==
    [n \in {0} |-> [ss |-> <<HeadItem("Snapshot", name, part_id),
                             SnapshotItem(NewState(part_id))>>,
                    logs |-> EmptyMap]]

\* a validate_repo_name that accepts every name but the empty one
validate_repo_name_nonempty(name) ==
    IF Len(name) = 0 THEN "ArgError" ELSE "Ok"

\* validate_repo_name: name is the sequence of the bytes of the name
validate_repo_name(name) ==
    IF Len(name) = 0 THEN "ArgError"
    ELSE IF Len(name) > NameLimit THEN "ArgError"
    ELSE "Ok"

\* Partition::create_part over the adapter io, of whose two writes (header,
\* snapshot) the first n succeed; p is empty when no partition is returned
create_part(io, name, part_id, n) ==
    IF validate_repo_name(name) # "Ok"
    THEN [p |-> <<>>, io |-> io, res |-> "ArgError"]
    ELSE IF 0 \in DOMAIN io
    THEN [p |-> <<>>, io |-> io, res |-> "AlreadyExists"]
    ELSE IF n < 2
    THEN [p |-> <<>>,
          io |-> [new_ss(io, 0) EXCEPT ![0].ss = Written(CreatedIo(name, part_id)[0].ss, n)],
          res |-> "IoError"]
    ELSE [p |-> <<CreatedPart(name, part_id)>>,
          io |-> [new_ss(io, 0) EXCEPT ![0].ss = CreatedIo(name, part_id)[0].ss],
          res |-> "Ok"]

\* Partition::is_ready
is_ready(p) == Cardinality(p.tips) = 1

\* Partition::is_loaded
is_loaded(p) == Cardinality(p.tips) > 0

\* Partition::merge_required
merge_required(p) == Cardinality(p.tips) > 1

\* a tip_key that hands out some tip whenever there is one
tip_key_any(p) ==
    IF p.tips # {}
    THEN [res |-> "Ok", key |-> CHOOSE k \in p.tips : TRUE]
    ELSE [res |-> "NotReady", key |-> ZeroSum]

\* Partition::tip_key
tip_key(p) ==
    IF Cardinality(p.tips) = 1
    THEN [res |-> "Ok", key |-> CHOOSE k \in p.tips : TRUE]
    ELSE IF p.tips = {} THEN [res |-> "NotReady", key |-> ZeroSum]
    ELSE [res |-> "MergeRequired", key |-> ZeroSum]

\* an unload that forgets the tips
unload_states_only(p, force) ==
    IF force \/ p.unsaved = <<>>
    THEN [p |-> [p EXCEPT !.states = EmptyMap], res |-> TRUE]
    ELSE [p |-> p, res |-> FALSE]

\* an unload that refuses whenever commits are queued
unload_unforced(p, force) ==
    IF p.unsaved = <<>>
    THEN [p |-> [p EXCEPT !.states = EmptyMap, !.tips = {}], res |-> TRUE]
    ELSE [p |-> p, res |-> FALSE]

\* Partition::unload
unload(p, force) ==
    IF force \/ p.unsaved = <<>>
    THEN [p |-> [p EXCEPT !.states = EmptyMap, !.tips = {}], res |-> TRUE]
    ELSE [p |-> p, res |-> FALSE]

\* an add_pair that leaves the parents among the tips
add_pair_keeps_parents(p, commit, state) ==
    [p EXCEPT !.ss_policy = PolicyAddEdits(PolicyAddCommits(@, 1), Len(commit.changes)),
              !.unsaved = Append(@, commit),
              !.tips = @ \cup {state.statesum},
              !.states = StatesInsert(@, state)]

\* Partition::add_pair
add_pair(p, commit, state) ==
    [p EXCEPT !.ss_policy = PolicyAddEdits(PolicyAddCommits(@, 1), Len(commit.changes)),
              !.unsaved = Append(@, commit),
              !.tips = (@ \ SeqToSet(state.parents)) \cup {state.statesum},
              !.states = StatesInsert(@, state)]

\* a push_commit that looks for the parent first and queues the commit
\* before it is applied
push_commit_eager(p, commit) ==
    IF commit.parents = <<>> \/ commit.parents[1] \notin DOMAIN p.states
    THEN [p |-> p, res |-> "NoParent"]
    ELSE IF commit.statesum \in DOMAIN p.states THEN [p |-> p, res |-> "SumClash"]
         ELSE LET r == patch(commit,
                             child_with_parents(p.states[commit.parents[1]], commit.parents))
              IN  IF r.res # "Ok"
                  THEN [p |-> [p EXCEPT !.unsaved = Append(@, commit)], res |-> r.res]
                  ELSE [p |-> add_pair(p, commit, r.state), res |-> "Ok"]

\* a push_commit that does not look for the sum among the states
push_commit_no_clash(p, commit) ==
    IF commit.parents = <<>> \/ commit.parents[1] \notin DOMAIN p.states
    THEN [p |-> p, res |-> "NoParent"]
    ELSE LET r == patch(commit,
                        child_with_parents(p.states[commit.parents[1]], commit.parents))
         IN  IF r.res # "Ok" THEN [p |-> p, res |-> r.res]
             ELSE [p |-> add_pair(p, commit, r.state), res |-> "Ok"]

\* Partition::push_commit
push_commit(p, commit) ==
    IF commit.statesum \in DOMAIN p.states THEN [p |-> p, res |-> "SumClash"]
    ELSE IF commit.parents = <<>> \/ commit.parents[1] \notin DOMAIN p.states
         THEN [p |-> p, res |-> "NoParent"]
         ELSE LET r == patch(commit,
                             child_with_parents(p.states[commit.parents[1]], commit.parents))
              IN  IF r.res # "Ok" THEN [p |-> p, res |-> r.res]
                  ELSE [p |-> add_pair(p, commit, r.state), res |-> "Ok"]

\* Partition::push_state
push_state(p, state) ==
    IF Len(state.parents) = 1 /\ state.parents[1] = state.statesum
    THEN [p |-> p, res |-> "false"]
    ELSE IF state.parents = <<>> \/ state.parents[1] \notin DOMAIN p.states
         THEN [p |-> p, res |-> "NoParent"]
         ELSE LET c == from_diff(p.states[state.parents[1]], state)
              IN  IF c = <<>> THEN [p |-> p, res |-> "false"]
                  ELSE [p |-> add_pair(p, c[1], state), res |-> "true"]

----------------------------------------------------------------------------
(* Partition: looking a state up by the text of its sum.  A sum s is the   *)
(* one byte 0xA0 + s; its text is the two upper-case hexadecimal digits    *)

\* the bytes of a sum
SumBytes(s) == <<160 + s>>

\* the character of a hexadecimal digit, upper case
HexChar(n) == IF n < 10 THEN 48 + n ELSE 55 + n

\* Sum::as_string(false)
as_string(s) ==
    <<HexChar(SumBytes(s)[1] \div 16), HexChar(SumBytes(s)[1] % 16)>>

\* String::to_uppercase on the characters a to z
to_uppercase(str) ==
    [i \in 1 .. Len(str) |-> IF str[i] >= 97 /\ str[i] <= 122 THEN str[i] - 32 ELSE str[i]]

RECURSIVE remove_spaces(_)
\* String::replace(" ", "")
remove_spaces(str) ==
    IF str = <<>> THEN <<>>
    ELSE IF str[1] = 32 THEN remove_spaces(Tail(str))
    ELSE <<str[1]>> \o remove_spaces(Tail(str))

\* Sum::matches_string: the text of the sum starts with the string
matches_string(s, str) ==
    /\ Len(str) <= Len(as_string(s))
    /\ SubSeq(as_string(s), 1, Len(str)) = str

RECURSIVE ScanStates_first_match(_, _, _, _)
\* a scan that is content with the first state that matches
ScanStates_first_match(sts, rest, matching, str) ==
    IF matching # <<>>
    THEN { [res |-> "Ok", key |-> matching[1], a |-> <<>>, b |-> <<>>] }
    ELSE IF rest = {}
    THEN { [res |-> "NoMatch", key |-> ZeroSum, a |-> <<>>, b |-> <<>>] }
    ELSE UNION { ScanStates_first_match(sts, rest \ {k},
                     IF matches_string(sts[k].statesum, str)
                     THEN Append(matching, sts[k].statesum) ELSE matching, str)
                 : k \in rest }

RECURSIVE ScanStates(_, _, _, _)
\* the loop of Partition::state_from_string over the states not yet visited,
\* in every order in which the set may hand them out: the results
ScanStates(sts, rest, matching, str) ==
    IF Len(matching) > 1
    THEN { [res |-> "MultiMatch", key |-> ZeroSum,
            a |-> as_string(matching[1]), b |-> as_string(matching[2])] }
    ELSE IF rest = {}
    THEN { IF Len(matching) = 1
           THEN [res |-> "Ok", key |-> matching[1], a |-> <<>>, b |-> <<>>]
           ELSE [res |-> "NoMatch", key |-> ZeroSum, a |-> <<>>, b |-> <<>>] }
    ELSE UNION { ScanStates(sts, rest \ {k},
                            IF matches_string(sts[k].statesum, str)
                            THEN Append(matching, sts[k].statesum) ELSE matching, str)
                 : k \in rest }

\* Partition::state_from_string: the results it can give
state_from_string(p, string) ==
    ScanStates(p.states, DOMAIN p.states, <<>>, remove_spaces(to_uppercase(string)))

----------------------------------------------------------------------------
(* Partition: writing *)

RECURSIVE FirstFree(_, _)
\* the probe for a free number, from n upward
FirstFree(used, n) == IF n \in used THEN FirstFree(used, n + 1) ELSE n

\* the probe from n upward finds a number above ProbeLimit taken before it
\* finds a free one: the loops of write and write_snapshot return an error
ProbeGivesUp(used, n) == FirstFree(used, n) > n /\ FirstFree(used, n) - 1 > ProbeLimit

RECURSIVE CommitItems_back_first(_, _)
\* the queue written from its back
CommitItems_back_first(q, i) ==
    IF i > Len(q) THEN <<>>
    ELSE CommitItems_back_first(q, i + 1) \o <<CommitItem(q[i])>>

RECURSIVE CommitItems(_, _)
\* the loop of Partition::write over unsaved, from the front
CommitItems(q, i) == IF i > Len(q) THEN <<>> ELSE <<CommitItem(q[i])>> \o CommitItems(q, i + 1)

\* a write_snapshot that leaves the policy's counters as they are
write_snapshot_no_reset(p, io, n) ==
    LET t == tip_key(p)
        ss == FirstFree(DOMAIN io, p.ss_num + 1)
        items == <<HeadItem("Snapshot", p.repo_name, p.part_id),
                   SnapshotItem(p.states[t.key])>>
    IN  IF t.res # "Ok" THEN [p |-> p, io |-> io, res |-> t.res]
        ELSE IF ProbeGivesUp(DOMAIN io, p.ss_num + 1)
        THEN [p |-> p, io |-> io, res |-> "NumberTooHigh"]
        ELSE IF n < 2
             THEN [p |-> p, io |-> [new_ss(io, ss) EXCEPT ![ss].ss = Written(items, n)],
                   res |-> "IoError"]
             ELSE [p |-> [p EXCEPT !.ss_num = ss],
                   io |-> [new_ss(io, ss) EXCEPT ![ss].ss = items],
                   res |-> "Ok"]

\* a write_snapshot that takes the number after ss_num whether or not the
\* slot is taken
write_snapshot_overwrite(p, io, n) ==
    LET t == tip_key(p)
        ss == p.ss_num + 1
        items == <<HeadItem("Snapshot", p.repo_name, p.part_id),
                   SnapshotItem(p.states[t.key])>>
    IN  IF t.res # "Ok" THEN [p |-> p, io |-> io, res |-> t.res]
        ELSE IF n < 2
             THEN [p |-> p, io |-> [new_ss(io, ss) EXCEPT ![ss].ss = Written(items, n)],
                   res |-> "IoError"]
             ELSE [p |-> [p EXCEPT !.ss_num = ss, !.ss_policy = PolicyReset(@)],
                   io |-> [new_ss(io, ss) EXCEPT ![ss].ss = items],
                   res |-> "Ok"]

\* Partition::write_snapshot; n is the number of writes to the new stream
\* that succeed before one fails (2 or more: none fails)
write_snapshot(p, io, n) ==
    LET t == tip_key(p)
        ss == FirstFree(DOMAIN io, p.ss_num + 1)
        items == <<HeadItem("Snapshot", p.repo_name, p.part_id),
                   SnapshotItem(p.states[t.key])>>
    IN  IF t.res # "Ok" THEN [p |-> p, io |-> io, res |-> t.res]
        ELSE IF ProbeGivesUp(DOMAIN io, p.ss_num + 1)
        THEN [p |-> p, io |-> io, res |-> "NumberTooHigh"]
        ELSE IF n < 2
             THEN [p |-> p, io |-> [new_ss(io, ss) EXCEPT ![ss].ss = Written(items, n)],
                   res |-> "IoError"]
             ELSE [p |-> [p EXCEPT !.ss_num = ss, !.ss_policy = PolicyReset(@)],
                   io |-> [new_ss(io, ss) EXCEPT ![ss].ss = items],
                   res |-> "Ok"]

\* a write that takes the last commit off the queue without writing it
WriteCommits_lossy(p, io, n) ==
    LET cl == FirstFree(DOMAIN io[p.ss_num].logs, ss_cl_len(io, p.ss_num))
        items == <<HeadItem("CommitLog", p.repo_name, p.part_id), LogStartItem>>
                   \o CommitItems(p.unsaved, 1)
    IN  IF p.unsaved = <<>> THEN [p |-> p, io |-> io, res |-> "Ok"]
        ELSE [p |-> [p EXCEPT !.unsaved = <<>>],
              io |-> [new_ss_cl(io, p.ss_num, cl) EXCEPT
                          ![p.ss_num].logs[cl] = Written(items, Len(items) - 1)],
              res |-> "Ok"]

\* a write that empties the queue before it writes
WriteCommits_drain(p, io, n) ==
    LET cl == FirstFree(DOMAIN io[p.ss_num].logs, ss_cl_len(io, p.ss_num))
        items == <<HeadItem("CommitLog", p.repo_name, p.part_id), LogStartItem>>
                   \o CommitItems(p.unsaved, 1)
    IN  IF p.unsaved = <<>> THEN [p |-> p, io |-> io, res |-> "Ok"]
        ELSE [p |-> [p EXCEPT !.unsaved = <<>>],
              io |-> [new_ss_cl(io, p.ss_num, cl) EXCEPT
                          ![p.ss_num].logs[cl] = Written(items, n)],
              res |-> IF n >= Len(items) THEN "Ok" ELSE "IoError"]

\* the first step of Partition::write: the unsaved commits go to a new log;
\* n is the number of writes to the new stream that succeed before one fails
WriteCommits(p, io, n) ==
    LET cl == FirstFree(DOMAIN io[p.ss_num].logs, ss_cl_len(io, p.ss_num))
        items == <<HeadItem("CommitLog", p.repo_name, p.part_id), LogStartItem>>
                   \o CommitItems(p.unsaved, 1)
        k == IF n < 2 THEN 0 ELSE n - 2
    IN  IF p.unsaved = <<>> THEN [p |-> p, io |-> io, res |-> "Ok"]
        ELSE IF p.ss_num \notin DOMAIN io THEN [p |-> p, io |-> io, res |-> "IoError"]
        ELSE IF ProbeGivesUp(DOMAIN io[p.ss_num].logs, ss_cl_len(io, p.ss_num))
        THEN [p |-> p, io |-> io, res |-> "NumberTooHigh"]
        ELSE IF n >= Len(items)
             THEN [p |-> [p EXCEPT !.unsaved = <<>>],
                   io |-> [new_ss_cl(io, p.ss_num, cl) EXCEPT ![p.ss_num].logs[cl] = items],
                   res |-> "Ok"]
             ELSE [p |-> [p EXCEPT !.unsaved = SubSeq(@, k + 1, Len(@))],
                   io |-> [new_ss_cl(io, p.ss_num, cl) EXCEPT
                               ![p.ss_num].logs[cl] = Written(items, n)],
                   res |-> "IoError"]

\* a write that goes on to the snapshot when the commits could not be
\* written
write_snapshot_anyway(p, io, fast, n, m) ==
    LET w == WriteCommits(p, io, n)
        has_changes == p.unsaved # <<>>
        s == write_snapshot(w.p, w.io, m)
    IN  IF ~fast /\ is_ready(w.p) /\ PolicySnapshot(w.p.ss_policy)
        THEN [p |-> s.p, io |-> s.io,
              res |-> IF w.res # "Ok" THEN w.res ELSE s.res,
              ret |-> (w.res = "Ok" /\ s.res = "Ok" /\ has_changes)]
        ELSE [p |-> w.p, io |-> w.io, res |-> w.res, ret |-> (w.res = "Ok" /\ has_changes)]

\* Partition::write; n and m are the numbers of successful writes to the
\* log stream and to the snapshot stream
write(p, io, fast, n, m) ==
    LET w == WriteCommits(p, io, n)
        has_changes == p.unsaved # <<>>
        s == write_snapshot(w.p, w.io, m)
    IN  IF w.res # "Ok" THEN [p |-> w.p, io |-> w.io, res |-> w.res, ret |-> FALSE]
        ELSE IF ~fast /\ is_ready(w.p) /\ PolicySnapshot(w.p.ss_policy)
             THEN [p |-> s.p, io |-> s.io, res |-> s.res,
                   ret |-> (s.res = "Ok" /\ has_changes)]
             ELSE [p |-> w.p, io |-> w.io, res |-> "Ok", ret |-> has_changes]

----------------------------------------------------------------------------
(* Partition: merging *)

Front(q) == SubSeq(q, 1, Len(q) - 1)
Last(q) == q[Len(q)]
ParentsOf(sts, k) == IF k \in DOMAIN sts THEN sts[k].parents ELSE <<>>

RECURSIVE Ancestors_first_parent(_, _, _)
\* a walk that follows the first parent of every state only
Ancestors_first_parent(sts, next, a1) ==
    IF next = <<>> THEN a1
    ELSE LET k == Last(next)
         IN  IF k \in a1 THEN Ancestors_first_parent(sts, Front(next), a1)
             ELSE Ancestors_first_parent(sts,
                     Front(next) \o (IF ParentsOf(sts, k) = <<>> THEN <<>>
                                      ELSE <<ParentsOf(sts, k)[1]>>),
                     a1 \cup {k})

RECURSIVE Ancestors(_, _, _)
\* the first loop of Partition::latest_common_ancestor: next is the work
\* list, taken from its back; a1 the keys seen so far
Ancestors(sts, next, a1) ==
    IF next = <<>> THEN a1
    ELSE LET k == Last(next)
         IN  IF k \in a1 THEN Ancestors(sts, Front(next), a1)
             ELSE Ancestors(sts, Front(next) \o ParentsOf(sts, k), a1 \cup {k})

RECURSIVE FindCommon(_, _, _, _)
\* the second loop of Partition::latest_common_ancestor
FindCommon(sts, next, a1, a2) ==
    IF next = <<>> THEN [res |-> "Err", key |-> ZeroSum]
    ELSE LET k == Last(next)
         IN  IF k \in a2 THEN FindCommon(sts, Front(next), a1, a2)
             ELSE IF k \in a1 THEN [res |-> "Ok", key |-> k]
             ELSE FindCommon(sts, Front(next) \o ParentsOf(sts, k), a1, a2 \cup {k})

\* Partition::latest_common_ancestor
latest_common_ancestor(sts, k1, k2) ==
    FindCommon(sts, <<k2>>, Ancestors(sts, <<k1>>, {}), {})

EltAt(s, i) == IF i \in DOMAIN s.elts THEN s.elts[i] ELSE 0

\* TwoWayMerge::solve for one element: the version both tips agree on, the
\* version of the tip that changed it, or the solver's choice ("A", "B" or
\* "fail", which leaves the conflict open as -1); 0 is no element
SolveElt(a, b, c, solver) ==
    IF a = b THEN a
    ELSE IF a = c THEN b
    ELSE IF b = c THEN a
    ELSE IF solver = "A" THEN a
    ELSE IF solver = "B" THEN b
    ELSE -1

\* TwoWayMerge::new, solve and make_commit: no commit (an empty sequence)
\* while a conflict is open, else the commit from tip a to the merged state
\* with parents a and b
MergeCommit(a, b, c, solver) ==
    LET ids == (DOMAIN a.elts) \cup (DOMAIN b.elts) \cup (DOMAIN c.elts)
        sol == [i \in ids |-> SolveElt(EltAt(a, i), EltAt(b, i), EltAt(c, i), solver)]
        keep == { i \in ids : sol[i] > 0 }
        elts == [i \in keep |-> sol[i]]
        moved == [i \in (DOMAIN a.moved) \cup (DOMAIN b.moved) |->
                     IF i \in DOMAIN a.moved THEN a.moved[i] ELSE b.moved[i]]
        merged == [part_id |-> a.part_id, parents |-> <<a.statesum, b.statesum>>,
                   statesum |-> EltsSum(elts), elts |-> elts, moved |-> moved]
    IN  IF \E i \in ids : sol[i] = -1 THEN <<>>
        ELSE << [parents |-> merged.parents, statesum |-> merged.statesum,
                 changes |-> DiffChanges(a, merged)] >>

\* a turn that merges against the first tip instead of the common ancestor
MergeTurn_first_tip_as_base(p, t1, t2, solver) ==
    LET common == latest_common_ancestor(p.states, t1, t2)
        c == MergeCommit(p.states[t1], p.states[t2], p.states[t1], solver)
    IN  IF common.res # "Ok" THEN [p |-> p, res |-> "NoCommonAncestor"]
        ELSE IF c = <<>> THEN [p |-> p, res |-> "MergeFailed"]
        ELSE push_commit(p, c[1])

\* one turn of the loop of Partition::merge with the tips t1 and t2 that
\* merge_two picked
MergeTurn(p, t1, t2, solver) ==
    LET common == latest_common_ancestor(p.states, t1, t2)
        c == MergeCommit(p.states[t1], p.states[t2], p.states[common.key], solver)
    IN  IF common.res # "Ok" THEN [p |-> p, res |-> "NoCommonAncestor"]
        ELSE IF common.key \notin DOMAIN p.states THEN [p |-> p, res |-> "Panic"]
        ELSE IF c = <<>> THEN [p |-> p, res |-> "MergeFailed"]
        ELSE push_commit(p, c[1])

RECURSIVE MergeOutcomes(_, _)
\* Partition::merge: the outcomes over the orders in which the tip set may
\* hand out its members
MergeOutcomes(p, solver) ==
    IF Cardinality(p.tips) <= 1 THEN { [p |-> p, res |-> "Ok"] }
    ELSE UNION { LET r == MergeTurn(p, t1, t2, solver)
                 IN  IF r.res # "Ok" THEN { r } ELSE MergeOutcomes(r.p, solver)
                 : <<t1, t2>> \in { pr \in p.tips \X p.tips : pr[1] # pr[2] } }

----------------------------------------------------------------------------
(* File headers, byte by byte (readwrite/header.rs)                        *)

\* "PIPPINSS20160227"
HEAD_SNAPSHOT == <<80, 73, 80, 80, 73, 78, 83, 83, 50, 48, 49, 54, 48, 50, 50, 55>>
\* "PIPPINCL20160221"
HEAD_COMMITLOG == <<80, 73, 80, 80, 73, 78, 67, 76, 50, 48, 49, 54, 48, 50, 50, 49>>
HEAD_VERSIONS == {20150929, 20160105, 20160201, 20160221, 20160222, 20160227}
\* "HSUM BLAKE2 16" and two NUL bytes
SUM_BLAKE2_16 == <<72, 83, 85, 77, 32, 66, 76, 65, 75, 69, 50, 32, 49, 54, 0, 0>>
\* "HPARTID "
PARTID == <<72, 80, 65, 82, 84, 73, 68, 32>>

\* the padding that pad writes: n NUL bytes
Zeros(n) == [i \in 1 .. n |-> 0]

RECURSIVE rtrim(_)
\* util::rtrim(s, 0): s without its trailing NUL bytes
rtrim(s) == IF s # <<>> /\ Last(s) = 0 THEN rtrim(Front(s)) ELSE s

RECURSIVE read_head_version(_)
\* read_head_version: the decimal number the bytes spell, 0 if they spell
\* none; the eight digits of a header stay within 32 bits
read_head_version(s) ==
    IF s = <<>> THEN 0
    ELSE IF \E i \in 1 .. Len(s) : s[i] < 48 \/ s[i] > 57 THEN 0
    ELSE 10 * read_head_version(Front(s)) + (Last(s) - 48)

\* the checksum of a run of bytes: SUM_BYTES bytes that depend on every byte
\* and on its place
Checksum(s) ==
    [i \in 1 .. SUM_BYTES |->
        Cardinality({ k \in 1 .. Len(s) : (s[k] + k) % SUM_BYTES = i - 1 }) % 256]

\* PartId as the 64-bit big-endian number that is written: the partition
\* number in the high 40 bits
PartIdBytes(pid) ==
    [i \in 1 .. 8 |-> IF i = 1 THEN (pid \div Pow2(24)) \div 256
                      ELSE IF i <= 5 THEN (pid \div Pow2(8 * (5 - i))) % 256
                      ELSE 0]

\* read_u64 and PartId::try_from: no partition for the number 0 and for a
\* number whose low 24 bits are not zero
PartIdFrom(b) ==
    LET num == (((b[1] * 256 + b[2]) * 256 + b[3]) * 256 + b[4]) * 256 + b[5]
    IN  IF b[6] # 0 \/ b[7] # 0 \/ b[8] # 0 \/ num = 0 THEN <<>> ELSE <<num>>

\* the length character of a Q block of n times 16 bytes, as write_head
\* computes it
BlockDigit(n) == IF n <= 9 THEN 48 + n ELSE (65 - 10) + n

\* the number of 16-byte units a length character stands for in read_head;
\* 0 for a character that is none
BlockCount(c) ==
    IF c >= 49 /\ c <= 57 THEN c - 48
    ELSE IF c >= 65 /\ c <= 90 THEN (c + 10) - 65
    ELSE 0

\* write_head, the body of the loop over the remarks: b[0] of an empty
\* remark is out of bounds
RemarkBlock(b) ==
    IF b = <<>> THEN [res |-> "Panic", bytes |-> <<>>]
    ELSE IF b[1] # 82 THEN [res |-> "ArgError", bytes |-> <<>>]
    ELSE IF Len(b) <= 15
    THEN [res |-> "Ok", bytes |-> <<72>> \o b \o Zeros(15 - Len(b))]
    ELSE IF Len(b) <= 16 * 36 - 2
    THEN [res |-> "Ok",
          bytes |-> <<81, BlockDigit((Len(b) + 2 + 15) \div 16)>> \o b
                      \o Zeros((((Len(b) + 2 + 15) \div 16) * 16 - Len(b)) + 2)]
    ELSE [res |-> "ArgError", bytes |-> <<>>]

\* write_head, the body of the loop over the user fields
UserBlock(uf) ==
    IF Len(uf) <= 14
    THEN [res |-> "Ok", bytes |-> <<72, 85>> \o uf \o Zeros(14 - Len(uf))]
    ELSE IF Len(uf) <= 16 * 36 - 3
    THEN [res |-> "Ok",
          bytes |-> <<81, BlockDigit((Len(uf) + 3 + 15) \div 16), 85>> \o uf
                      \o Zeros((((Len(uf) + 3 + 15) \div 16) * 16 - Len(uf)) - 3)]
    ELSE [res |-> "ArgError", bytes |-> <<>>]

RECURSIVE WriteBlocks(_, _, _)
\* the two loops of write_head over the blocks of the remarks and fields:
\* the bytes written so far, up to the first block that is refused
WriteBlocks(blocks, i, acc) ==
    IF i > Len(blocks) THEN [res |-> "Ok", bytes |-> acc]
    ELSE IF blocks[i].res # "Ok" THEN [res |-> blocks[i].res, bytes |-> acc]
    ELSE WriteBlocks(blocks, i + 1, acc \o blocks[i].bytes)

\* write_head: the result and the bytes that have reached the writer.  A
\* header is [ftype |-> <<kind, version>>, name, part_id (no or one
\* partition number), remarks, user_fields], its strings sequences of bytes
write_head(header) ==
    LET magic == IF header.ftype[1] = "Snapshot" THEN HEAD_SNAPSHOT ELSE HEAD_COMMITLOG
        name == header.name \o Zeros(16 - Len(header.name))
        part == IF header.part_id = <<>> THEN <<>>
                ELSE PARTID \o PartIdBytes(header.part_id[1])
        blocks == [i \in 1 .. Len(header.remarks) |-> RemarkBlock(header.remarks[i])]
                    \o [i \in 1 .. Len(header.user_fields) |-> UserBlock(header.user_fields[i])]
    IN  IF validate_repo_name(header.name) # "Ok"
        THEN [res |-> "ArgError", bytes |-> magic]
        ELSE The({ IF w.res # "Ok" THEN w
                   ELSE [res |-> "Ok",
                         bytes |-> w.bytes \o SUM_BLAKE2_16
                                     \o Checksum(w.bytes \o SUM_BLAKE2_16)]
                   : w \in {WriteBlocks(blocks, 1, magic \o name \o part)} })

\* what read_head returns when it fails
HeadErr(why) ==
    [res |-> why,
     head |-> [ftype |-> <<"", 0>>, name |-> <<>>, part_id |-> <<>>,
               remarks |-> <<>>, user_fields |-> <<>>]]

\* the end of read_head: the checksum of the first n bytes is compared with
\* the SUM_BYTES bytes that follow them
ReadSum(bytes, n, header) ==
    IF Len(bytes) < n + SUM_BYTES THEN HeadErr("UnexpectedEof")
    ELSE IF Checksum(SubSeq(bytes, 1, n)) # SubSeq(bytes, n + 1, n + SUM_BYTES)
    THEN HeadErr("ReadError")
    ELSE [res |-> "Ok", head |-> header]

\* one turn of the loop of read_head: pos bytes are read, then a block of
\* 16 bytes that starts with H, or of x times 16 bytes that starts with Q
\* and the length character of x; more says whether the loop goes on
ReadBlock(bytes, pos, header) ==
    IF Len(bytes) < pos + 16 THEN [more |-> FALSE, out |-> HeadErr("UnexpectedEof")]
    ELSE IF bytes[pos + 1] # 72 /\ bytes[pos + 1] # 81
    THEN [more |-> FALSE, out |-> HeadErr("ReadError")]
    ELSE IF bytes[pos + 1] = 81 /\ BlockCount(bytes[pos + 2]) = 0
    THEN [more |-> FALSE, out |-> HeadErr("ReadError")]
    ELSE IF bytes[pos + 1] = 81 /\ Len(bytes) < pos + BlockCount(bytes[pos + 2]) * 16
    THEN [more |-> FALSE, out |-> HeadErr("UnexpectedEof")]
    ELSE LET len == IF bytes[pos + 1] = 72 THEN 16 ELSE BlockCount(bytes[pos + 2]) * 16
             off == IF bytes[pos + 1] = 72 THEN 1 ELSE 2
             block == SubSeq(bytes, pos + off + 1, pos + len)
             next(h) == [more |-> TRUE, pos |-> pos + len, out |-> [res |-> "Ok", head |-> h]]
         IN  IF SubSeq(block, 1, 3) = SubSeq(SUM_BLAKE2_16, 2, 4)
             THEN IF rtrim(SubSeq(block, 4, Len(block))) = SubSeq(SUM_BLAKE2_16, 5, 14)
                  THEN [more |-> FALSE, out |-> ReadSum(bytes, pos + len, header)]
                  ELSE [more |-> FALSE, out |-> HeadErr("ReadError")]
             ELSE IF SubSeq(block, 1, 7) = SubSeq(PARTID, 2, 8)
             THEN IF header.part_id # <<>> THEN [more |-> FALSE, out |-> HeadErr("ReadError")]
                  ELSE IF Len(block) < 15 THEN [more |-> FALSE, out |-> HeadErr("Panic")]
                  ELSE IF PartIdFrom(SubSeq(block, 8, 15)) = <<>>
                  THEN [more |-> FALSE, out |-> HeadErr("ReadError")]
                  ELSE next([header EXCEPT !.part_id = PartIdFrom(SubSeq(block, 8, 15))])
             ELSE IF block[1] = 82
             THEN next([header EXCEPT !.remarks = Append(@, rtrim(block))])
             ELSE IF block[1] = 85
             THEN next([header EXCEPT !.user_fields =
                                          Append(@, rtrim(SubSeq(block, 2, Len(block))))])
             ELSE next(header)

RECURSIVE ReadBlocks(_, _, _)
\* the loop of read_head, from pos bytes read
ReadBlocks(bytes, pos, header) ==
    The({ IF s.more THEN ReadBlocks(bytes, s.pos, s.out.head) ELSE s.out
          : s \in {ReadBlock(bytes, pos, header)} })

\* read_head on the bytes of a stream
read_head_bytes(bytes) ==
    IF Len(bytes) < 16 THEN HeadErr("UnexpectedEof")
    ELSE IF read_head_version(SubSeq(bytes, 9, 16)) \notin HEAD_VERSIONS
    THEN HeadErr("ReadError")
    ELSE IF /\ SubSeq(bytes, 1, 8) # SubSeq(HEAD_SNAPSHOT, 1, 8)
            /\ SubSeq(bytes, 1, 8) # SubSeq(HEAD_COMMITLOG, 1, 8)
    THEN HeadErr("ReadError")
    ELSE IF Len(bytes) < 32 THEN HeadErr("UnexpectedEof")
    ELSE ReadBlocks(bytes, 32,
                    [ftype |-> <<IF SubSeq(bytes, 1, 8) = SubSeq(HEAD_SNAPSHOT, 1, 8)
                                 THEN "Snapshot" ELSE "CommitLog",
                                 read_head_version(SubSeq(bytes, 9, 16))>>,
                     name |-> rtrim(SubSeq(bytes, 17, 32)),
                     part_id |-> <<>>, remarks |-> <<>>, user_fields |-> <<>>])

----------------------------------------------------------------------------
(* RepoState (repo.rs): the states of the loaded partitions, by PartId     *)

\* ClassifierT::classify: odd elements belong to the first partition, even
\* ones to the second
classify(e) == IF e % 2 = 1 THEN ThisPart ELSE OtherPart

\* the ids of the two partitions
RepoIds == { EltIdOf(part, n) : part \in {ThisPart, OtherPart}, n \in 0 .. (EltSpan - 1) }

\* State::insert_rc of RepoState
RepoState_insert_rc(rs, e, r) ==
    IF classify(e) \notin DOMAIN rs THEN [states |-> rs, res |-> "NotLoaded"]
    ELSE The({ [states |-> [rs EXCEPT ![classify(e)] = i.state], res |-> i.res]
               : i \in {insert_rc(rs[classify(e)], e, r)} })

\* step 2 of the move in RepoState::replace_rc: the element goes to the
\* target state under its old number, or under a new id if that fails
MoveTarget(target, id, e, r) ==
    The({ IF t.res = "Ok"
          THEN [state |-> t.state, res |-> "Ok", id |-> EltIdOf(target.part_id, EltNum(id))]
          ELSE insert_rc(target, e, r)
          : t \in {insert_with_id(target, EltIdOf(target.part_id, EltNum(id)), e)} })

\* step 3: the element leaves the source state, which notes its new id
MoveSource(rs, id, t) ==
    The({ IF rm.res # "Ok"
          THEN [states |-> [rs EXCEPT ![t.state.part_id] = t.state], res |-> rm.res]
          ELSE [states |-> [rs EXCEPT ![t.state.part_id] = t.state,
                                      ![PartOf(id)] = set_move(rm.state, id, t.id)],
                res |-> "Ok"]
          : rm \in {remove(rs[PartOf(id)], id)} })

\* State::replace_rc of RepoState
RepoState_replace_rc(rs, id, e, r) ==
    IF classify(e) # PartOf(id)
    THEN IF PartOf(id) \notin DOMAIN rs \/ classify(e) \notin DOMAIN rs
         THEN [states |-> rs, res |-> "NotLoaded"]
         ELSE The({ IF t.res # "Ok" THEN [states |-> rs, res |-> t.res]
                    ELSE MoveSource(rs, id, t)
                    : t \in {MoveTarget(rs[classify(e)], id, e, r)} })
    ELSE IF classify(e) \notin DOMAIN rs THEN [states |-> rs, res |-> "NotLoaded"]
    ELSE The({ [states |-> [rs EXCEPT ![classify(e)] = x.state], res |-> x.res]
               : x \in {replace_rc(rs[classify(e)], id, e)} })

\* State::remove of RepoState
RepoState_remove(rs, id) ==
    IF PartOf(id) \notin DOMAIN rs THEN [states |-> rs, res |-> "NotLoaded"]
    ELSE The({ [states |-> [rs EXCEPT ![PartOf(id)] = x.state], res |-> x.res]
               : x \in {remove(rs[PartOf(id)], id)} })

\* one turn of the loop of RepoState::locate with the id l.id; notes is the
\* length of to_update, which is written and never read
LocateTurn(rs, l) ==
    IF PartOf(l.id) \notin DOMAIN rs
    THEN [l EXCEPT !.pc = "done", !.res = "NotLoaded"]
    ELSE IF l.id \in DOMAIN rs[PartOf(l.id)].elts
    THEN [l EXCEPT !.pc = "done", !.res = "Ok"]
    ELSE IF l.id \in DOMAIN rs[PartOf(l.id)].moved
    THEN [l EXCEPT !.id = rs[PartOf(l.id)].moved[l.id],
                   !.notes = IF @ < MaxNotes THEN @ + 1 ELSE @]
    ELSE [l EXCEPT !.pc = "done", !.res = "NotFound"]

----------------------------------------------------------------------------
(* Repo (repo.rs): partitions is the map of the repository's partitions,   *)
(* each a Partition p over its adapter io; an order is the order in which  *)
(* an iteration over a HashMap hands out its keys                          *)

RECURSIVE Orders(_)
\* the orders in which the members of S can be handed out
Orders(S) ==
    IF S = {} THEN { <<>> }
    ELSE UNION { { <<x>> \o o : o \in Orders(S \ {x}) } : x \in S }

\* PartitionState::clone_exact
clone_exact(s) ==
    [part_id |-> s.part_id, parents |-> s.parents, statesum |-> s.statesum,
     elts |-> s.elts, moved |-> s.moved]

\* Partition::tip
tip(p) ==
    The({ [res |-> k.res, state |-> IF k.res = "Ok" THEN p.states[k.key] ELSE NewState(p.part_id)]
          : k \in {tip_key(p)} })

RECURSIVE LoadEach(_, _, _)
\* the loop of Repo::load_all
LoadEach(parts, order, all_history) ==
    IF order = <<>> THEN [parts |-> parts, res |-> "Ok"]
    ELSE The({ IF r.res # "Ok"
               THEN [parts |-> [parts EXCEPT ![Head(order)].p = r.p], res |-> r.res]
               ELSE LoadEach([parts EXCEPT ![Head(order)].p = r.p], Tail(order), all_history)
               : r \in {load(parts[Head(order)].p, parts[Head(order)].io, all_history)} })

\* Repo::load_all
load_all(parts, all_history, order) == LoadEach(parts, order, all_history)

RECURSIVE WriteEach(_, _, _)
\* the loop of Repo::write_all, over adapters that take every write
WriteEach(parts, order, fast) ==
    IF order = <<>> THEN [parts |-> parts, res |-> "Ok"]
    ELSE The({ IF r.res # "Ok"
               THEN [parts |-> [parts EXCEPT ![Head(order)] = [p |-> r.p, io |-> r.io]],
                     res |-> r.res]
               ELSE WriteEach([parts EXCEPT ![Head(order)] = [p |-> r.p, io |-> r.io]],
                              Tail(order), fast)
               : r \in {write(parts[Head(order)].p, parts[Head(order)].io, fast,
                              Len(parts[Head(order)].p.unsaved) + 2, 2)} })

\* Repo::write_all
write_all(parts, fast, order) == WriteEach(parts, order, fast)

RECURSIVE UnloadEach(_, _, _, _)
\* the loop of Repo::unload_all: all && part.unload(force) does not call
\* unload once all is false
UnloadEach(parts, order, force, all) ==
    IF order = <<>> THEN [parts |-> parts, res |-> all]
    ELSE IF ~all THEN UnloadEach(parts, Tail(order), force, FALSE)
    ELSE The({ UnloadEach([parts EXCEPT ![Head(order)].p = r.p], Tail(order), force, r.res)
               : r \in {unload(parts[Head(order)].p, force)} })

\* Repo::unload_all
unload_all(parts, force, order) == UnloadEach(parts, order, force, TRUE)

\* Repo::merge_required
repo_merge_required(parts) == \E n \in DOMAIN parts : merge_required(parts[n].p)

RECURSIVE MergeEach(_, _, _)
\* the loop of Repo::merge: the outcomes over the orders of the tips
MergeEach(parts, order, solver) ==
    IF order = <<>> THEN { [parts |-> parts, res |-> "Ok"] }
    ELSE UNION { IF r.res # "Ok"
                 THEN { [parts |-> [parts EXCEPT ![Head(order)].p = r.p], res |-> r.res] }
                 ELSE MergeEach([parts EXCEPT ![Head(order)].p = r.p], Tail(order), solver)
                 : r \in MergeOutcomes(parts[Head(order)].p, solver) }

\* Repo::merge
repo_merge(parts, solver, order) == MergeEach(parts, order, solver)

RECURSIVE CloneEach(_, _, _)
\* the loop of Repo::clone_state; rs is the states map of the new RepoState
CloneEach(parts, order, rs) ==
    IF order = <<>> THEN [states |-> rs, res |-> "Ok"]
    ELSE IF ~is_loaded(parts[Head(order)].p) THEN CloneEach(parts, Tail(order), rs)
    ELSE The({ IF t.res # "Ok" THEN [states |-> EmptyMap, res |-> t.res]
               ELSE CloneEach(parts, Tail(order), MapPut(rs, Head(order), clone_exact(t.state)))
               : t \in {tip(parts[Head(order)].p)} })

\* Repo::clone_state
clone_state(parts, order) == CloneEach(parts, order, EmptyMap)

RECURSIVE SyncFill(_, _, _, _)
\* the second loop of Repo::sync: every partition without an entry gets the
\* clone of its tip
SyncFill(parts, rs, order, mr) ==
    IF order = <<>>
    THEN [parts |-> parts, states |-> rs, res |-> IF mr THEN "Ok(true)" ELSE "Ok(false)"]
    ELSE IF Head(order) \in DOMAIN rs THEN SyncFill(parts, rs, Tail(order), mr)
    ELSE The({ IF t.res # "Ok" THEN [parts |-> parts, states |-> rs, res |-> t.res]
               ELSE SyncFill(parts, MapPut(rs, Head(order), clone_exact(t.state)),
                             Tail(order), mr)
               : t \in {tip(parts[Head(order)].p)} })

\* what the first loop of Repo::sync does with the state pstate of partition
\* num: rs is the RepoState's new map, mr the flag merge_required
SyncOne(parts, num, pstate, rs, mr) ==
    The({ IF k.res = "Ok" /\ k.key = pstate.statesum
          THEN [parts |-> parts, states |-> MapPut(rs, num, pstate), mr |-> mr, res |-> "Ok"]
          ELSE The({ IF r.res \notin {"true", "false"}
                     THEN [parts |-> parts, states |-> rs, mr |-> mr, res |-> r.res]
                     ELSE IF r.res = "false"
                     THEN [parts |-> parts, states |-> rs, mr |-> mr, res |-> "Ok"]
                     ELSE IF merge_required(r.p)
                     THEN [parts |-> [parts EXCEPT ![num].p = r.p], states |-> rs,
                           mr |-> TRUE, res |-> "Ok"]
                     ELSE [parts |-> [parts EXCEPT ![num].p = r.p],
                           states |-> MapPut(rs, num, clone_exact(tip(r.p).state)),
                           mr |-> mr, res |-> tip(r.p).res]
                     : r \in {push_state(parts[num].p, pstate)} })
          : k \in {tip_key(parts[num].p)} })

RECURSIVE SyncPush(_, _, _, _, _, _)
\* the first loop of Repo::sync over the states swapped out of the RepoState
SyncPush(parts, old, order, rs, mr, fill) ==
    IF order = <<>> THEN SyncFill(parts, rs, fill, mr)
    ELSE The({ IF s.res # "Ok" THEN [parts |-> s.parts, states |-> s.states, res |-> s.res]
               ELSE SyncPush(s.parts, old, Tail(order), s.states, s.mr, fill)
               : s \in {SyncOne(parts, Head(order), old[Head(order)], rs, mr)} })

\* Repo::sync: order is the order of the RepoState's states, fill that of
\* the repository's partitions
sync(parts, rs, order, fill) == SyncPush(parts, rs, order, EmptyMap, FALSE, fill)

----------------------------------------------------------------------------
(* The state machine: one partition over one adapter, and the state the    *)
(* caller is editing.                                                      *)

VARIABLES
    io,          \* the adapter's streams
    repo_name,   \* Partition.repo_name
    ss_num,      \* Partition.ss_num
    ss_policy,   \* Partition.ss_policy
    states,      \* Partition.states, keyed by statesum
    tips,        \* Partition.tips
    unsaved,     \* Partition.unsaved, front first
    work,        \* a PartitionState in the hands of a caller
    hdr,         \* a FileHeader in the hands of a caller, written and read
    partitions,  \* Repo.partitions: each partition with its adapter
    rstate,      \* RepoState.states, in the hands of a caller
    loc,         \* the call of RepoState::locate under way or just returned
    last         \* the last operation and what it returned

vars ==
    <<io, repo_name, ss_num, ss_policy, states, tips, unsaved, work, hdr,
      partitions, rstate, loc, last>>
partVars == <<repo_name, ss_num, ss_policy, states, tips, unsaved>>
repoVars == <<partitions, rstate, loc>>

\* the name of the repository: the bytes of "t"
RepoName == <<116>>

\* no call of locate is under way
IdleLoc == [pc |-> "idle", id |-> 0, notes |-> 0, res |-> ""]

\* no header built, nothing written, nothing read
NoHdr ==
    [header |-> <<>>, written |-> [res |-> "", bytes |-> <<>>], read |-> HeadErr("")]

Part ==
    [repo_name |-> repo_name, part_id |-> ThisPart, ss_num |-> ss_num,
     ss_policy |-> ss_policy, states |-> states, tips |-> tips, unsaved |-> unsaved]

SetPart(p) ==
    /\ repo_name' = p.repo_name
    /\ ss_num' = p.ss_num
    /\ ss_policy' = p.ss_policy
    /\ states' = p.states
    /\ tips' = p.tips
    /\ unsaved' = p.unsaved

\* a stream that a failed write left short
TornSs(file) == Len(file) < 2
TornLog(file) == Len(file) < 3
TornCount(f) ==
    Cardinality({ ss \in DOMAIN f : TornSs(f[ss].ss) })
      + Cardinality({ x \in (DOMAIN f) \X (0 .. (MaxCl + MaxLogs)) :
                          x[2] \in DOMAIN f[x[1]].logs /\ TornLog(f[x[1]].logs[x[2]]) })

\* the policy's counters are within n of a reset or of a require
CountsWithin(n) ==
    /\ \/ ss_policy.commits <= n
       \/ /\ ss_policy.commits >= RequireCommits
          /\ ss_policy.commits <= RequireCommits + n
    /\ ss_policy.edits <= 2 * n

\* the adapter holds at most ns snapshot slots, nl logs per snapshot and nt
\* short streams
IoWithin(ns, nl, nt) ==
    /\ ss_len(io) <= ns
    /\ \A ss \in DOMAIN io : ss_cl_len(io, ss) <= nl
    /\ TornCount(io) <= nt

\* the part of the state space that Spec explores
InBounds ==
    /\ Cardinality(DOMAIN states) <= MaxStates
    /\ Len(unsaved) <= MaxUnsaved
    /\ CountsWithin(MaxCount)
    /\ IoWithin(MaxSs, MaxCl, MaxTorn)

Init ==
    /\ io = CreatedIo(RepoName, ThisPart)
    /\ repo_name = RepoName
    /\ ss_num = 0
    /\ ss_policy = PolicyNew
    /\ states = CreatedPart(RepoName, ThisPart).states
    /\ tips = {ZeroSum}
    /\ unsaved = <<>>
    /\ work = NewState(ThisPart)
    /\ hdr = NoHdr
    /\ partitions = EmptyMap
    /\ rstate = EmptyMap
    /\ loc = IdleLoc
    /\ last = [op |-> "create", res |-> "Ok"]

----------------------------------------------------------------------------
(* The states and commits a caller builds *)

\* PartitionState::new_with
new_with(part_id, parents) ==
    [part_id |-> part_id, parents |-> parents, statesum |-> ZeroSum,
     elts |-> EmptyMap, moved |-> EmptyMap]

FirstId == EltIdOf(ThisPart, 0)
ForeignId == EltIdOf(OtherPart, 0)
Randoms == 0 .. (EltSpan - 1)

\* the states one call of insert_with_id, insert, replace, remove or
\* set_move makes of s, whatever the call returns: puts are the <<id,
\* element>> pairs passed, mids the ids whose move is noted, gens the
\* <<element, random sample>> pairs of insert
EditResults(s, puts, mids, gens) ==
    { insert_with_id(s, x[1], x[2]).state : x \in puts }
      \cup { insert_rc(s, x[1], x[2]).state : x \in gens }
      \cup { replace_rc(s, x[1], x[2]).state : x \in puts }
      \cup { remove(s, x[1]).state : x \in puts }
      \cup { set_move(s, i, ForeignId) : i \in mids }

\* s after at most two such calls
Edited(s, puts, mids, gens) ==
    {s} \cup EditResults(s, puts, mids, gens)
        \cup UNION { EditResults(x, puts, mids, gens) : x \in EditResults(s, puts, mids, gens) }

\* the states a caller can hand to push_state: an edited clone_child of a
\* state of the partition, or a state made by new_with with one parent and
\* at most one edit
CallerStates(sts, puts, mids, gens) ==
    UNION { Edited(clone_child(sts[k]), puts, mids, gens) : k \in DOMAIN sts }
      \cup UNION { {new_with(ThisPart, <<a>>)}
                     \cup EditResults(new_with(ThisPart, <<a>>), puts, mids, gens)
                   : a \in Sums }

\* the commits a caller builds by hand: a parent list, any sum, at most one
\* edit
CallerChanges(puts) ==
    { <<>> } \cup { <<InsertEdit(x[1], x[2])>> : x \in puts }
             \cup { <<RemoveEdit(x[1], ElementSum(x[2]))>> : x \in puts }
CallerCommits(parents, puts) ==
    { [parents |-> ps, statesum |-> s, changes |-> ch] :
          ps \in parents, s \in Sums, ch \in CallerChanges(puts) }

\* every <<id, element>> pair of the partition's own ids
AllPuts == OwnIds \X Elts
\* element e under the e-th id of the partition: every set of them has a
\* sum of its own
OwnPuts == { <<EltIdOf(ThisPart, e - 1), e>> : e \in 1 .. EltSpan }

----------------------------------------------------------------------------
(* The operations of the partition *)

PushState(s) ==
    /\ \E r \in {push_state(Part, s)} :
           /\ SetPart(r.p)
           /\ last' = [op |-> "push_state", res |-> r.res]
    /\ UNCHANGED <<io, work, hdr, repoVars>>

PushCommit(c) ==
    /\ \E r \in {push_commit(Part, c)} :
           /\ SetPart(r.p)
           /\ last' = [op |-> "push_commit", res |-> r.res]
    /\ UNCHANGED <<io, work, hdr, repoVars>>

Merge(solver) ==
    /\ \E r \in MergeOutcomes(Part, solver) :
           /\ SetPart(r.p)
           /\ last' = [op |-> "merge", res |-> r.res]
    /\ UNCHANGED <<io, work, hdr, repoVars>>

Write(fast, n, m) ==
    /\ \E r \in {write(Part, io, fast, n, m)} :
           /\ SetPart(r.p)
           /\ io' = r.io
           /\ last' = [op |-> "write", res |-> r.res]
    /\ UNCHANGED <<work, hdr, repoVars>>

WriteSnapshot(n) ==
    /\ \E r \in {write_snapshot(Part, io, n)} :
           /\ SetPart(r.p)
           /\ io' = r.io
           /\ last' = [op |-> "write_snapshot", res |-> r.res]
    /\ UNCHANGED <<work, hdr, repoVars>>

Load(all_history) ==
    /\ \E r \in {load(Part, io, all_history)} :
           /\ SetPart(r.p)
           /\ last' = [op |-> "load", res |-> r.res]
    /\ UNCHANGED <<io, work, hdr, repoVars>>

Unload(force) ==
    /\ \E r \in {unload(Part, force)} :
           /\ SetPart(r.p)
           /\ last' = [op |-> "unload", res |-> IF r.res THEN "true" ELSE "false"]
    /\ UNCHANGED <<io, work, hdr, repoVars>>

\* Partition::create over the adapter, for a caller that holds no loaded
\* partition; the caller keeps what it had when create fails
Create(name, n) ==
    /\ \E r \in {create_part(io, name, ThisPart, n)} :
           /\ io' = r.io
           /\ IF r.p = <<>> THEN UNCHANGED partVars ELSE SetPart(r.p[1])
           /\ last' = [op |-> "create", res |-> r.res]
    /\ UNCHANGED <<work, hdr, repoVars>>

Solvers == {"A", "B", "fail"}
\* puts of the first id only
FirstPuts == {FirstId} \X Elts

Next ==
    \/ \E s \in CallerStates(states, FirstPuts, {}, {}) : PushState(s) /\ InBounds'
    \/ \E c \in CallerCommits({ <<a>> : a \in Sums }, FirstPuts) : PushCommit(c) /\ InBounds'
    \/ \E solver \in Solvers : Merge(solver) /\ InBounds'
    \/ \E fast \in BOOLEAN, n \in 0 .. (MaxUnsaved + 2), m \in 0 .. 2 :
           Write(fast, n, m) /\ InBounds'
    \/ \E n \in 0 .. 2 : WriteSnapshot(n) /\ InBounds'
    \/ \E a \in BOOLEAN : Load(a) /\ InBounds'
    \/ \E f \in BOOLEAN : Unload(f)

\* one partition over one adapter, through every operation
Spec == Init /\ [][Next]_vars

----------------------------------------------------------------------------
(* Pushing and merging in memory *)

PushBounds ==
    /\ Len(unsaved) <= MaxQueue
    /\ CountsWithin(MaxPushes)

NextPush ==
    \/ \E s \in CallerStates(states, OwnPuts, {FirstId}, {}) :
           PushState(s) /\ PushBounds'
    \/ \E c \in CallerCommits({ <<a>> : a \in Sums } \cup (tips \X Sums), OwnPuts) :
           PushCommit(c) /\ PushBounds'
    \/ \E solver \in Solvers : Merge(solver) /\ PushBounds'
    \/ \E f \in BOOLEAN : Unload(f)

SpecPush == Init /\ [][NextPush]_vars

----------------------------------------------------------------------------
(* Writing with snapshot numbers at ProbeLimit: the partition is loaded    *)
(* from an adapter whose one snapshot is in slot ProbeLimit - 1            *)

HighIo == [n \in {ProbeLimit - 1} |-> CreatedIo(RepoName, ThisPart)[0]]

InitProbe ==
    /\ io = HighIo
    /\ \E l \in {load(OpenPart(ThisPart), HighIo, FALSE)} :
           /\ repo_name = l.p.repo_name
           /\ ss_num = l.p.ss_num
           /\ ss_policy = l.p.ss_policy
           /\ states = l.p.states
           /\ tips = l.p.tips
           /\ unsaved = l.p.unsaved
           /\ last = [op |-> "load", res |-> l.res]
    /\ work = NewState(ThisPart)
    /\ hdr = NoHdr
    /\ partitions = EmptyMap
    /\ rstate = EmptyMap
    /\ loc = IdleLoc

\* the part of the state space that SpecProbe explores
ProbeBounds ==
    /\ Len(unsaved) <= MaxUnsaved
    /\ CountsWithin(MaxCount)
    /\ Cardinality(DOMAIN io) <= MaxProbeSs
    /\ \A ss \in DOMAIN io : ss_cl_len(io, ss) <= MaxCl

NextProbe ==
    \/ \E k \in tips : \E s \in EditResults(clone_child(states[k]), OwnPuts, {}, {}) :
           PushState(s) /\ ProbeBounds'
    \/ \E fast \in BOOLEAN, n \in 0 .. (MaxUnsaved + 2) :
           Write(fast, n, 2) /\ ProbeBounds'
    \/ \E n \in 0 .. 2 : WriteSnapshot(n) /\ ProbeBounds'

SpecProbe == InitProbe /\ [][NextProbe]_vars

----------------------------------------------------------------------------
(* Merging three and more tips in memory *)

\* element e goes under the e-th id of the partition, counted round
MergePuts == { <<EltIdOf(ThisPart, e - 1), e>> : e \in 1 .. MaxMergeElt }

\* the states pushed: a clone_child of a state of the partition after one
\* insert_with_id, replace or remove
MergeStates(sts) ==
    UNION { EditResults(clone_child(sts[k]), MergePuts, {}, {}) : k \in DOMAIN sts }

MergeBounds == Len(unsaved) <= MaxMergeQueue

NextMerge ==
    \/ \E s \in MergeStates(states) : PushState(s) /\ MergeBounds'
    \/ \E solver \in Solvers : Merge(solver) /\ MergeBounds'

SpecMerge == Init /\ [][NextMerge]_vars

----------------------------------------------------------------------------
(* Writing the queue, with writes that fail *)

WriteBounds ==
    /\ Len(unsaved) <= MaxQueue
    /\ CountsWithin(MaxPushes)
    /\ IoWithin(1, MaxLogs, MaxLogs)

NextWrite ==
    \/ \E k \in tips : \E s \in EditResults(clone_child(states[k]), OwnPuts, {}, {}) :
           PushState(s) /\ WriteBounds'
    \/ \E fast \in BOOLEAN, n \in 0 .. (MaxQueue + 2) : Write(fast, n, 2) /\ WriteBounds'

SpecWrite == Init /\ [][NextWrite]_vars

----------------------------------------------------------------------------
(* Create, edit, write; the adapter is then opened and loaded again *)

RtBounds ==
    /\ Len(unsaved) <= MaxQueue
    /\ CountsWithin(MaxPushes)
    /\ IoWithin(1, MaxLogs, 0)

\* two elements under two ids, for a push with two edits
TwoPuts == {<<FirstId, 1>>, <<NextElt(FirstId), 2>>}

NextRT ==
    \/ /\ is_ready(Part)
       /\ \E s \in Edited(clone_child(states[tip_key(Part).key]), TwoPuts, {}, {})
                    \cup EditResults(clone_child(states[tip_key(Part).key]), AllPuts, {}, {}) :
              PushState(s) /\ RtBounds'
    \/ \E fast \in BOOLEAN : Write(fast, MaxQueue + 2, 2) /\ RtBounds'

SpecRT == Init /\ [][NextRT]_vars

----------------------------------------------------------------------------
(* One PartitionState under the calls of a caller, with any ids *)

EditInsertWithId(id, e) ==
    /\ \E r \in {insert_with_id(work, id, e)} :
           /\ work' = r.state
           /\ last' = [op |-> "insert_with_id", res |-> r.res]
    /\ UNCHANGED <<io, partVars, hdr, repoVars>>

EditInsert(e, rnd) ==
    /\ \E r \in {insert_rc(work, e, rnd)} :
           /\ work' = r.state
           /\ last' = [op |-> "insert", res |-> r.res]
    /\ UNCHANGED <<io, partVars, hdr, repoVars>>

EditReplace(id, e) ==
    /\ \E r \in {replace_rc(work, id, e)} :
           /\ work' = r.state
           /\ last' = [op |-> "replace", res |-> r.res]
    /\ UNCHANGED <<io, partVars, hdr, repoVars>>

EditRemove(id) ==
    /\ \E r \in {remove(work, id)} :
           /\ work' = r.state
           /\ last' = [op |-> "remove", res |-> r.res]
    /\ UNCHANGED <<io, partVars, hdr, repoVars>>

EditSetMove(id, new_id) ==
    /\ work' = set_move(work, id, new_id)
    /\ last' = [op |-> "set_move", res |-> "Ok"]
    /\ UNCHANGED <<io, partVars, hdr, repoVars>>

EditCloneChild ==
    /\ work' = clone_child(work)
    /\ last' = [op |-> "clone_child", res |-> "Ok"]
    /\ UNCHANGED <<io, partVars, hdr, repoVars>>

\* child_with_parents with a second parent; the first is the state's sum
EditChildWithParents(second) ==
    /\ work' = child_with_parents(work, <<work.statesum, second>>)
    /\ last' = [op |-> "child_with_parents", res |-> "Ok"]
    /\ UNCHANGED <<io, partVars, hdr, repoVars>>

NextState ==
    \/ \E i \in AllIds, e \in Elts : EditInsertWithId(i, e)
    \/ \E e \in Elts, rnd \in Randoms : EditInsert(e, rnd)
    \/ \E i \in AllIds, e \in Elts : EditReplace(i, e)
    \/ \E i \in AllIds : EditRemove(i)
    \/ \E i \in OwnIds : EditSetMove(i, ForeignId)
    \/ EditCloneChild
    \/ \E second \in Sums : EditChildWithParents(second)

SpecState == Init /\ [][NextState]_vars

----------------------------------------------------------------------------
(* Elements that move to another partition and back: the state is once the *)
(* source and once the target of RepoState::replace_rc                     *)

\* RepoState::replace_rc, step 3, on the source state: the element is
\* removed and its new name noted
MoveOut(id, new_id) ==
    /\ \E r \in {remove(work, id)} :
           /\ work' = IF r.res = "Ok" THEN set_move(r.state, id, new_id) ELSE r.state
           /\ last' = [op |-> "move_out", res |-> r.res]
    /\ UNCHANGED <<io, partVars, hdr, repoVars>>

\* RepoState::replace_rc, step 2, on the target state: the element is
\* inserted under its old element number, or under a new id if that fails
MoveIn(num, e, rnd) ==
    /\ \E r \in {insert_with_id(work, EltIdOf(work.part_id, num), e)} :
           \E r2 \in {IF r.res = "Ok" THEN r ELSE insert_rc(work, e, rnd)} :
               /\ work' = r2.state
               /\ last' = [op |-> "move_in", res |-> r2.res]
    /\ UNCHANGED <<io, partVars, hdr, repoVars>>

NextMove ==
    \/ \E e \in Elts, rnd \in Randoms : EditInsert(e, rnd)
    \/ \E i \in OwnIds : EditRemove(i)
    \/ \E i \in OwnIds : MoveOut(i, ForeignId)
    \/ \E n \in Randoms, e \in Elts, rnd \in Randoms : MoveIn(n, e, rnd)
    \/ EditCloneChild

SpecMove == Init /\ [][NextMove]_vars

----------------------------------------------------------------------------
(* Creating a partition over a new adapter *)

\* the names tried: n bytes "t" each
Names == { [i \in 1 .. n |-> RepoName[1]] : n \in 0 .. MaxName }

\* a new adapter, and a Partition opened over it
InitCreate ==
    /\ io = EmptyMap
    /\ repo_name = OpenPart(ThisPart).repo_name
    /\ ss_num = OpenPart(ThisPart).ss_num
    /\ ss_policy = OpenPart(ThisPart).ss_policy
    /\ states = OpenPart(ThisPart).states
    /\ tips = OpenPart(ThisPart).tips
    /\ unsaved = OpenPart(ThisPart).unsaved
    /\ work = NewState(ThisPart)
    /\ hdr = NoHdr
    /\ partitions = EmptyMap
    /\ rstate = EmptyMap
    /\ loc = IdleLoc
    /\ last = [op |-> "open", res |-> "Ok"]

\* the part of the state space that SpecCreate explores
CreateBounds ==
    /\ Len(unsaved) <= MaxUnsaved
    /\ CountsWithin(MaxCount)
    /\ IoWithin(1, MaxCl, MaxCl)

NextCreate ==
    \/ \E name \in Names, n \in 0 .. 2 : Create(name, n) /\ CreateBounds'
    \/ \E k \in tips : \E s \in EditResults(clone_child(states[k]), OwnPuts, {}, {}) :
           PushState(s) /\ CreateBounds'
    \/ \E fast \in BOOLEAN, n \in 0 .. (MaxUnsaved + 2) :
           Write(fast, n, 2) /\ CreateBounds'
    \/ \E f \in BOOLEAN : Unload(f)

SpecCreate == InitCreate /\ [][NextCreate]_vars

----------------------------------------------------------------------------
(* Writing a file header and reading it back *)

\* a remark of n bytes: "R" and n - 1 times "e"
RemarkOf(n) == [i \in 1 .. n |-> IF i = 1 THEN 82 ELSE 101]
\* a user field of n bytes "u"
FieldOf(n) == [i \in 1 .. n |-> 117]
SeqsUpTo(S, n) == UNION { [1 .. k -> S] : k \in 0 .. n }

\* the headers a caller builds: names of 0, 1, 16 and 17 bytes; remarks that
\* fill an H block or need a Q block, and one that does not start with R;
\* user fields likewise, the longest that write_head takes, and one that
\* ends with a NUL byte
Headers ==
    [ftype : {<<"Snapshot", 0>>, <<"CommitLog", 0>>},
     name : { n \in Names : Len(n) \in {0, 1, NameLimit, NameLimit + 1} },
     part_id : {<<>>, <<ThisPart>>},
     remarks : SeqsUpTo({ RemarkOf(n) : n \in {1, 15, 16, 30} } \cup {FieldOf(1)},
                        MaxRemarks),
     user_fields : SeqsUpTo({ FieldOf(n) : n \in {0, 14, 15, 27, 16 * 36 - 3} }
                              \cup {<<117, 0>>},
                            MaxFields)]

\* the caller builds a header when it holds none, or one that is read back
BuildHeader(h) ==
    /\ hdr.header = <<>> \/ hdr.read.res # ""
    /\ hdr' = [NoHdr EXCEPT !.header = <<h>>]
    /\ last' = [op |-> "FileHeader", res |-> "Ok"]
    /\ UNCHANGED <<io, partVars, work, repoVars>>

WriteHead ==
    /\ hdr.header # <<>>
    /\ hdr.written.res = ""
    /\ \E w \in {write_head(hdr.header[1])} :
           /\ hdr' = [hdr EXCEPT !.written = w]
           /\ last' = [op |-> "write_head", res |-> w.res]
    /\ UNCHANGED <<io, partVars, work, repoVars>>

ReadHead ==
    /\ hdr.written.res # ""
    /\ hdr.read.res = ""
    /\ \E r \in {read_head_bytes(hdr.written.bytes)} :
           /\ hdr' = [hdr EXCEPT !.read = r]
           /\ last' = [op |-> "read_head", res |-> r.res]
    /\ UNCHANGED <<io, partVars, work, repoVars>>

NextHead ==
    \/ \E h \in Headers : BuildHeader(h)
    \/ WriteHead
    \/ ReadHead

SpecHead == Init /\ [][NextHead]_vars

----------------------------------------------------------------------------
(* The snapshot policy at its limit: the partition has taken WarmPushes    *)
(* commits of one edit each since it was created, and has logged them      *)

RECURSIVE TogglePushes(_, _)
\* k times push_state of a clone_child of the tip in which the first element
\* is inserted if it is absent and removed if it is present
TogglePushes(p, k) ==
    IF k = 0 THEN p
    ELSE The({ TogglePushes(q, k - 1)
               : q \in { push_state(p, IF FirstId \in DOMAIN c.elts
                                       THEN remove(c, FirstId).state
                                       ELSE insert_with_id(c, FirstId, 1).state).p
                         : c \in {clone_child(p.states[tip_key(p).key])} } })

InitPolicy ==
    /\ \E w \in {write(TogglePushes(CreatedPart(RepoName, ThisPart), WarmPushes),
                       CreatedIo(RepoName, ThisPart), TRUE, WarmPushes + 2, 2)} :
           /\ io = w.io
           /\ repo_name = w.p.repo_name
           /\ ss_num = w.p.ss_num
           /\ ss_policy = w.p.ss_policy
           /\ states = w.p.states
           /\ tips = w.p.tips
           /\ unsaved = w.p.unsaved
    /\ work = NewState(ThisPart)
    /\ hdr = NoHdr
    /\ partitions = EmptyMap
    /\ rstate = EmptyMap
    /\ loc = IdleLoc
    /\ last = [op |-> "write", res |-> "Ok"]

\* the counters are within MaxPushes of a reset or of the warm start
PolicyBounds ==
    /\ Len(unsaved) <= MaxUnsaved
    /\ \/ ss_policy.commits <= MaxPushes
       \/ /\ ss_policy.commits >= WarmPushes
          /\ ss_policy.commits <= WarmPushes + MaxPushes
    /\ IoWithin(MaxSs, MaxLogs + 1, 0)

NextPolicy ==
    \/ \E k \in DOMAIN states :
           \E s \in EditResults(clone_child(states[k]), FirstPuts, {}, {}) :
               PushState(s) /\ PolicyBounds'
    \/ \E solver \in Solvers : Merge(solver) /\ PolicyBounds'
    \/ \E fast \in BOOLEAN : Write(fast, MaxUnsaved + 2, 2) /\ PolicyBounds'

SpecPolicy == InitPolicy /\ [][NextPolicy]_vars

----------------------------------------------------------------------------
(* Loading from an adapter that has lost a snapshot: a slot is then known  *)
(* by its logs only and read_ss returns None for it                        *)

\* the adapter f without the snapshot stream of slot ss
LoseSnapshot(f, ss) == [f EXCEPT ![ss].ss = NoStream]

\* the partition and the adapter after create, a push and a write
WrittenOnce ==
    The({ write(p, CreatedIo(RepoName, ThisPart), TRUE, 3, 2)
          : p \in { push_state(c, insert_with_id(clone_child(c.states[ZeroSum]),
                                                 FirstId, 1).state).p
                    : c \in {CreatedPart(RepoName, ThisPart)} } })
\* then after write_snapshot
Snapshotted == The({ write_snapshot(w.p, w.io, 2) : w \in {WrittenOnce} })
\* then after another push and write
WrittenTwice ==
    The({ The({ write(p, s.io, TRUE, 3, 2)
                : p \in { push_state(s.p,
                              insert_with_id(clone_child(s.p.states[tip_key(s.p).key]),
                                             NextElt(FirstId), 2).state).p } })
          : s \in {Snapshotted} })

\* the adapters a partition is opened over
LoadAdapters ==
    { WrittenOnce.io, Snapshotted.io, WrittenTwice.io,
      LoseSnapshot(WrittenOnce.io, 0),
      LoseSnapshot(WrittenTwice.io, 1) }

InitLoad ==
    /\ io \in LoadAdapters
    /\ repo_name = <<>>
    /\ ss_num = 0
    /\ ss_policy = PolicyNew
    /\ states = EmptyMap
    /\ tips = {}
    /\ unsaved = <<>>
    /\ work = NewState(ThisPart)
    /\ hdr = NoHdr
    /\ partitions = EmptyMap
    /\ rstate = EmptyMap
    /\ loc = IdleLoc
    /\ last = [op |-> "open", res |-> "Ok"]

LoadBounds ==
    /\ Len(unsaved) <= MaxUnsaved
    /\ CountsWithin(MaxCount)
    /\ IoWithin(MaxSs + 1, MaxLogs, 1)

NextLoad ==
    \/ \E a \in BOOLEAN : Load(a) /\ LoadBounds'
    \/ \E k \in tips : \E s \in EditResults(clone_child(states[k]), FirstPuts, {}, {}) :
           PushState(s) /\ LoadBounds'
    \/ \E fast \in BOOLEAN : Write(fast, MaxUnsaved + 2, 2) /\ LoadBounds'
    \/ \E n \in 0 .. 2 : WriteSnapshot(n) /\ LoadBounds'
    \/ \E f \in BOOLEAN : Unload(f)

SpecLoad == InitLoad /\ [][NextLoad]_vars

----------------------------------------------------------------------------
(* A RepoState over two partitions: elements are inserted, replaced (which *)
(* moves them when their class changes), removed and located               *)

InitLocate ==
    /\ io = CreatedIo(RepoName, ThisPart)
    /\ repo_name = RepoName
    /\ ss_num = 0
    /\ ss_policy = PolicyNew
    /\ states = CreatedPart(RepoName, ThisPart).states
    /\ tips = {ZeroSum}
    /\ unsaved = <<>>
    /\ work = NewState(ThisPart)
    /\ hdr = NoHdr
    /\ partitions = EmptyMap
    /\ rstate \in { [n \in S |-> NewState(n)] : S \in {{ThisPart}, {ThisPart, OtherPart}} }
    /\ loc = IdleLoc
    /\ last = [op |-> "clone_state", res |-> "Ok"]

RsInsert(e, r) ==
    /\ loc.pc # "loop"
    /\ \E x \in {RepoState_insert_rc(rstate, e, r)} :
           /\ rstate' = x.states
           /\ last' = [op |-> "rs_insert", res |-> x.res]
    /\ loc' = IdleLoc
    /\ UNCHANGED <<io, partVars, work, hdr, partitions>>

RsReplace(id, e, r) ==
    /\ loc.pc # "loop"
    /\ \E x \in {RepoState_replace_rc(rstate, id, e, r)} :
           /\ rstate' = x.states
           /\ last' = [op |-> "rs_replace", res |-> x.res]
    /\ loc' = IdleLoc
    /\ UNCHANGED <<io, partVars, work, hdr, partitions>>

RsRemove(id) ==
    /\ loc.pc # "loop"
    /\ \E x \in {RepoState_remove(rstate, id)} :
           /\ rstate' = x.states
           /\ last' = [op |-> "rs_remove", res |-> x.res]
    /\ loc' = IdleLoc
    /\ UNCHANGED <<io, partVars, work, hdr, partitions>>

\* RepoState::locate is called and enters its loop
LocateCall(id) ==
    /\ loc.pc # "loop"
    /\ loc' = [pc |-> "loop", id |-> id, notes |-> 0, res |-> ""]
    /\ last' = [op |-> "locate", res |-> ""]
    /\ UNCHANGED <<io, partVars, work, hdr, partitions, rstate>>

\* one turn of the loop; the call returns when the turn ends the loop
LocateStep ==
    /\ loc.pc = "loop"
    /\ loc' = LocateTurn(rstate, loc)
    /\ last' = [op |-> "locate", res |-> loc'.res]
    /\ UNCHANGED <<io, partVars, work, hdr, partitions, rstate>>

NextLocate ==
    \/ \E e \in Elts, r \in Randoms : RsInsert(e, r)
    \/ \E id \in RepoIds, e \in Elts, r \in Randoms : RsReplace(id, e, r)
    \/ \E id \in RepoIds : RsRemove(id)
    \/ \E id \in RepoIds : LocateCall(id)
    \/ LocateStep

\* a turn of the loop is taken whenever a call is under way
SpecLocate == InitLocate /\ [][NextLocate]_vars /\ WF_vars(LocateStep)

----------------------------------------------------------------------------
(* Looking states up by the text of their sums *)

\* " ", "0", "1", "A", "a"
MatchChars == {32, 48, 49, 65, 97}

\* the strings of up to n of these characters
MatchStrings(n) ==
    UNION { [1 .. k -> MatchChars] : k \in 0 .. n }

\* "", "a", "a 1", "A3", "0", "a00"
LookupStrings ==
    { <<>>, <<97>>, <<97, 32, 49>>, <<65, 51>>, <<48>>, <<97, 48, 48>> }

Lookup(string) ==
    /\ \E r \in state_from_string(Part, string) :
           last' = [op |-> "state_from_string", res |-> r.res]
    /\ UNCHANGED <<io, partVars, work, hdr, repoVars>>

MatchBounds ==
    /\ Cardinality(DOMAIN states) <= MaxStates
    /\ Len(unsaved) <= MaxUnsaved

NextMatch ==
    \/ \E k \in DOMAIN states :
           \E s \in EditResults(clone_child(states[k]), OwnPuts, {}, {}) :
               PushState(s) /\ MatchBounds'
    \/ \E fast \in BOOLEAN : Write(fast, MaxUnsaved + 2, 2) /\ IoWithin(1, MaxLogs, 0)'
    \/ \E string \in LookupStrings : Lookup(string)

SpecMatch == Init /\ [][NextMatch]_vars

----------------------------------------------------------------------------
(* A repository of two partitions, opened over their files *)

RepoParts == {ThisPart, OtherPart}
RepoElts == 1 .. MaxRepoElt

\* the partition n and its adapter after create_part, the push of a first
\* element of the partition's class and write
WrittenPart(n) ==
    The({ write(p, CreatedIo(RepoName, n), TRUE, 3, 2)
          : p \in { push_state(c, insert_with_id(clone_child(c.states[ZeroSum]),
                                                 EltIdOf(n, 0),
                                                 IF n = ThisPart THEN 1 ELSE 2).state).p
                    : c \in {CreatedPart(RepoName, n)} } })

\* Repo::open: every partition opened over its adapter, the name read from
\* the first header, nothing loaded
InitRepo ==
    /\ io = CreatedIo(RepoName, ThisPart)
    /\ repo_name = RepoName
    /\ ss_num = 0
    /\ ss_policy = PolicyNew
    /\ states = CreatedPart(RepoName, ThisPart).states
    /\ tips = {ZeroSum}
    /\ unsaved = <<>>
    /\ work = NewState(ThisPart)
    /\ hdr = NoHdr
    /\ partitions = [n \in RepoParts |->
                        [p |-> [OpenPart(n) EXCEPT !.repo_name = RepoName],
                         io |-> WrittenPart(n).io]]
    /\ rstate = EmptyMap
    /\ loc = IdleLoc
    /\ last = [op |-> "open", res |-> "Ok"]

RepoLoadAll(all_history) ==
    /\ \E order \in Orders(DOMAIN partitions) :
           \E r \in {load_all(partitions, all_history, order)} :
               /\ partitions' = r.parts
               /\ last' = [op |-> "load_all", res |-> r.res]
    /\ UNCHANGED <<io, partVars, work, hdr, rstate, loc>>

RepoWriteAll(fast) ==
    /\ \E order \in Orders(DOMAIN partitions) :
           \E r \in {write_all(partitions, fast, order)} :
               /\ partitions' = r.parts
               /\ last' = [op |-> "write_all", res |-> r.res]
    /\ UNCHANGED <<io, partVars, work, hdr, rstate, loc>>

RepoUnloadAll(force) ==
    /\ \E order \in Orders(DOMAIN partitions) :
           \E r \in {unload_all(partitions, force, order)} :
               /\ partitions' = r.parts
               /\ last' = [op |-> IF force THEN "unload_all(true)" ELSE "unload_all(false)",
                           res |-> IF r.res THEN "true" ELSE "false"]
    /\ UNCHANGED <<io, partVars, work, hdr, rstate, loc>>

RepoMerge(solver) ==
    /\ \E order \in Orders(DOMAIN partitions) :
           \E r \in repo_merge(partitions, solver, order) :
               /\ partitions' = r.parts
               /\ last' = [op |-> "repo_merge", res |-> r.res]
    /\ UNCHANGED <<io, partVars, work, hdr, rstate, loc>>

\* Repo::clone_state; the caller keeps the RepoState it had when the call
\* fails
RepoCloneState ==
    /\ \E order \in Orders(DOMAIN partitions) :
           \E r \in {clone_state(partitions, order)} :
               /\ rstate' = IF r.res = "Ok" THEN r.states ELSE rstate
               /\ last' = [op |-> "clone_state", res |-> r.res]
    /\ UNCHANGED <<io, partVars, work, hdr, partitions, loc>>

RepoSync ==
    /\ \E order \in Orders(DOMAIN rstate), fill \in Orders(DOMAIN partitions) :
           \E r \in {sync(partitions, rstate, order, fill)} :
               /\ partitions' = r.parts
               /\ rstate' = r.states
               /\ last' = [op |-> "sync", res |-> r.res]
    /\ UNCHANGED <<io, partVars, work, hdr, loc>>

RepoBounds ==
    \A n \in DOMAIN partitions :
        /\ Len(partitions[n].p.unsaved) <= MaxUnsaved + 1
        /\ Cardinality(DOMAIN partitions[n].p.states) <= MaxStates
        /\ ss_len(partitions[n].io) <= 1
        /\ ss_cl_len(partitions[n].io, 0) <= MaxLogs
        /\ \/ partitions[n].p.ss_policy.commits <= MaxPushes
           \/ /\ partitions[n].p.ss_policy.commits >= RequireCommits
              /\ partitions[n].p.ss_policy.commits <= RequireCommits + MaxPushes
        /\ partitions[n].p.ss_policy.edits <= 2 * MaxPushes

NextRepo ==
    \/ \E a \in BOOLEAN : RepoLoadAll(a) /\ RepoBounds'
    \/ \E fast \in BOOLEAN : RepoWriteAll(fast) /\ RepoBounds'
    \/ \E f \in BOOLEAN : RepoUnloadAll(f)
    \/ \E solver \in Solvers : RepoMerge(solver) /\ RepoBounds'
    \/ RepoCloneState
    \/ RepoSync /\ RepoBounds'
    \/ \E e \in RepoElts, r \in Randoms : RsInsert(e, r)
    \/ \E id \in RepoIds : RsRemove(id)

SpecRepo == InitRepo /\ [][NextRepo]_vars

----------------------------------------------------------------------------
(* Properties *)

\* the commits of a log stream: what lies behind the header and the marker
LogCommits(file) == [i \in 1 .. (Len(file) - 2) |-> file[i + 2].val]
\* the logs of the current snapshot that the step has created
NewLogs == (DOMAIN io'[ss_num].logs) \ (DOMAIN io[ss_num].logs)
\* the primary parent of a caller's state is a state of the partition
HasParent(s) == s.parents # <<>> /\ s.parents[1] \in DOMAIN states
\* what a new Partition over the same adapter has after load
Reopened(all_history) == load(OpenPart(ThisPart), io, all_history)

\* C1: once every pushed commit is written, a new Partition opened over the
\* same adapter loads, in either mode, exactly one tip, whose elements and
\* statesum are those of the tip in memory.
LoadRoundTrip ==
    (unsaved = <<>> /\ is_ready(Part)) =>
        \A a \in BOOLEAN :
            LET r == Reopened(a)
            IN  /\ r.res = "Ok"
                /\ Cardinality(r.p.tips) = 1
                /\ LET k == tip_key(r.p).key
                       m == tip_key(Part).key
                   IN  /\ k \in DOMAIN r.p.states
                       /\ r.p.states[k].elts = states[m].elts
                       /\ r.p.states[k].statesum = states[m].statesum

\* two logs are written and the tip holds elements
LoadRoundTripWitness ==
    /\ unsaved = <<>>
    /\ last = [op |-> "write", res |-> "Ok"]
    /\ is_ready(Part)
    /\ states[tip_key(Part).key].elts # EmptyMap
    /\ \E ss \in DOMAIN io : ss_cl_len(io, ss) >= 2

\* C2: the statesum of a PartitionState is the permute-fold of the sums of
\* the elements it holds, after any sequence of edits, failed ones included.
StateSumConsistent == work.statesum = EltsSum(work.elts)

\* a replace of an absent id has failed and the state holds two elements
StateSumWitness ==
    /\ last = [op |-> "replace", res |-> "NotFound"]
    /\ Cardinality(DOMAIN work.elts) >= 2

\* C3: a push that fails leaves the partition as it was; push_commit
\* reports SumClash for a sum that is a key of states before it looks for
\* the parent, and NoParent for a first parent that is no key.
FailingPushKeepsPartition ==
    /\ \A c \in CallerCommits({ <<a>> : a \in Sums } \cup (tips \X Sums), OwnPuts) :
           LET r == push_commit(Part, c)
           IN  /\ r.res # "Ok" => r.p = Part
               /\ c.statesum \in DOMAIN states => r.res = "SumClash"
               /\ (c.statesum \notin DOMAIN states /\ c.parents[1] \notin DOMAIN states)
                      => r.res = "NoParent"
    /\ \A s \in CallerStates(states, OwnPuts, {FirstId}, {}) :
           LET r == push_state(Part, s)
           IN  r.res = "NoParent" => r.p = Part

\* a push_commit has failed on a partition with commits queued
FailingPushWitness ==
    /\ last.op = "push_commit"
    /\ last.res \in {"SumClash", "NoParent", "PatchApplyFailed"}
    /\ unsaved # <<>>
    /\ Cardinality(DOMAIN states) >= 2

\* C4: a pushed child that differs from its primary parent and whose sum is
\* a key of states is rejected with SumClash, by push_state as by
\* push_commit, and nothing is added.
SumClashRejected ==
    /\ \A s \in CallerStates(states, OwnPuts, {}, {}) :
           (/\ HasParent(s)
            /\ s.elts # states[s.parents[1]].elts
            /\ s.statesum \in DOMAIN states)
               => (push_state(Part, s).res = "SumClash" /\ push_state(Part, s).p = Part)
    /\ \A c \in CallerCommits({ <<a>> : a \in Sums }, OwnPuts) :
           c.statesum \in DOMAIN states
               => (push_commit(Part, c).res = "SumClash" /\ push_commit(Part, c).p = Part)

\* a push_state has queued a commit whose sum was a key of states: the
\* genesis sum is the child sum of the second commit
SumClashWitness ==
    /\ last = [op |-> "push_state", res |-> "true"]
    /\ Len(unsaved) = 2
    /\ unsaved[2].statesum = ZeroSum
    /\ tips = {ZeroSum}

\* C5: a sum is a tip if and only if it is a key of states and no state of
\* states lists it among its parents.
TipsAreLeaves ==
    \A k \in Sums :
        k \in tips <=>
            (k \in DOMAIN states
               /\ \A j \in DOMAIN states : k \notin SeqToSet(states[j].parents))

\* C6: every tip is a key of states.
TipsAreStates == \A k \in tips : k \in DOMAIN states

\* a load has left two tips
TipsAreStatesWitness ==
    /\ last = [op |-> "load", res |-> "Ok"]
    /\ Cardinality(tips) >= 2

\* C7: the child sum of every commit in unsaved is a key of states.
UnsavedHaveStates ==
    \A i \in 1 .. Len(unsaved) : unsaved[i].statesum \in DOMAIN states

\* C8: push_state returns false and changes nothing exactly when the diff
\* of the state against its primary parent is empty; otherwise it returns
\* true and appends one commit to unsaved.
PushStateFalseIffNoDiff ==
    \A s \in CallerStates(states, OwnPuts, {FirstId}, {}) :
        HasParent(s) =>
            LET d == from_diff(states[s.parents[1]], s)
                r == push_state(Part, s)
            IN  /\ d = <<>> => (r.res = "false" /\ r.p = Part)
                /\ d # <<>> => (r.res = "true" /\ r.p.unsaved = Append(unsaved, d[1]))

\* C9: the commits of a log that a write creates are the front of unsaved,
\* in the order of unsaved, none skipped or repeated; all of unsaved when
\* the write succeeds.
CommitOrdering ==
    [][ \A cl \in NewLogs :
            LET written == LogCommits(io'[ss_num].logs[cl])
            IN  /\ Len(written) <= Len(unsaved)
                /\ written = SubSeq(unsaved, 1, Len(written))
                /\ last'.res = "Ok" => written = unsaved ]_vars

\* a write has put three commits into one log
CommitOrderingWitness ==
    /\ last = [op |-> "write", res |-> "Ok"]
    /\ \E cl \in DOMAIN io[ss_num].logs : Len(LogCommits(io[ss_num].logs[cl])) >= 3

\* C10: a write that fails returns the error, has the commits before the
\* failing one in the log and the failing one and all later ones in
\* unsaved, in order, leaves states and tips alone, and a write that then
\* succeeds logs exactly the commits that remained.
RetryFriendlyWrite ==
    [][ (last'.op = "write" /\ last'.res # "Ok") =>
            /\ states' = states
            /\ tips' = tips
            /\ \A cl \in NewLogs :
                   /\ LogCommits(io'[ss_num].logs[cl]) \o unsaved' = unsaved
                   /\ LET again == write(Part', io', TRUE, MaxQueue + 2, 2)
                      IN  /\ again.res = "Ok"
                          /\ again.p.unsaved = <<>>
                          /\ \E c2 \in (DOMAIN again.io[ss_num].logs)
                                          \ (DOMAIN io'[ss_num].logs) :
                                 LogCommits(again.io[ss_num].logs[c2]) = unsaved'
            /\ NewLogs = {} => unsaved' = unsaved ]_vars

\* a write has failed at the second of three commits
RetryFriendlyWitness ==
    /\ last = [op |-> "write", res |-> "IoError"]
    /\ Len(unsaved) = 2
    /\ \E cl \in DOMAIN io[ss_num].logs :
           /\ Len(LogCommits(io[ss_num].logs[cl])) = 1
           /\ unsaved[1].parents = <<LogCommits(io[ss_num].logs[cl])[1].statesum>>

MergedCommit(t1, t2, solver) ==
    LET common == latest_common_ancestor(states, t1, t2)
    IN  IF common.res # "Ok" \/ common.key \notin DOMAIN states THEN <<>>
        ELSE MergeCommit(states[t1], states[t2], states[common.key], solver)
\* the merged state of the tips t1 and t2 has the statesum of one of them
MergedIsTip(t1, t2, solver) ==
    \E c \in SeqToSet(MergedCommit(t1, t2, solver)) : c.statesum \in {t1, t2}

\* C12: when the merged state of the two tips picked has the statesum of one
\* of them, the turn of merge ends in an error and leaves the partition
\* (tips, states, unsaved) as it was; a merge of two such tips returns an
\* error, whatever the order in which the tips are handed out.
MergeIntoTipFails ==
    \A solver \in Solvers :
        /\ \A t1 \in tips : \A t2 \in tips \ {t1} :
               MergedIsTip(t1, t2, solver) =>
                   \E r \in {MergeTurn(Part, t1, t2, solver)} :
                       r.res # "Ok" /\ r.p = Part
        /\ (/\ Cardinality(tips) = 2
            /\ \A t1 \in tips : \A t2 \in tips \ {t1} : MergedIsTip(t1, t2, solver))
               => \A o \in MergeOutcomes(Part, solver) : o.res # "Ok" /\ o.p = Part

\* a merge has failed with SumClash on two tips holding elements, one of
\* which is the merged state
MergeIntoTipWitness ==
    /\ last = [op |-> "merge", res |-> "SumClash"]
    /\ Cardinality(tips) = 2
    /\ \A t \in tips : t \in DOMAIN states /\ states[t].elts # EmptyMap
    /\ \E solver \in Solvers : \A t1 \in tips : \A t2 \in tips \ {t1} :
           MergedIsTip(t1, t2, solver)

\* C13: tip_key returns Ok with the one member of tips exactly when tips has
\* one element, NotReady exactly when tips is empty and MergeRequired exactly
\* when tips has more than one; is_ready is is_loaded and not merge_required,
\* and exactly one of not loaded, ready and merge required holds.
TipKeyTrichotomy ==
    \E r \in {tip_key(Part)} :
        /\ r.res \in {"Ok", "NotReady", "MergeRequired"}
        /\ (r.res = "Ok") = (Cardinality(tips) = 1)
        /\ r.res = "Ok" => tips = {r.key}
        /\ (r.res = "NotReady") = (tips = {})
        /\ (r.res = "MergeRequired") = (Cardinality(tips) > 1)
        /\ is_ready(Part) = (is_loaded(Part) /\ ~merge_required(Part))
        /\ Cardinality({ b \in {"unloaded", "ready", "merge"} :
                             \/ b = "unloaded" /\ ~is_loaded(Part)
                             \/ b = "ready" /\ is_ready(Part)
                             \/ b = "merge" /\ merge_required(Part) }) = 1

\* a push has left two tips: tip_key asks for a merge
TipKeyWitness ==
    /\ last.op \in {"push_state", "push_commit"}
    /\ Cardinality(tips) = 2
    /\ tip_key(Part).res = "MergeRequired"
    /\ merge_required(Part) /\ is_loaded(Part) /\ ~is_ready(Part)

\* C14: unload(force) returns true and empties states and tips exactly when
\* force is true or unsaved is empty; otherwise it returns false and leaves
\* states, tips and unsaved as they were. After an unload that returned true
\* is_loaded is false and tip_key fails with NotReady.
UnloadExactly ==
    \A force \in BOOLEAN :
        \E r \in {unload(Part, force)} :
            /\ r.res = (force \/ unsaved = <<>>)
            /\ r.res => /\ r.p.states = EmptyMap
                        /\ r.p.tips = {}
                        /\ ~is_loaded(r.p)
                        /\ tip_key(r.p).res = "NotReady"
            /\ ~r.res => /\ r.p.states = states
                         /\ r.p.tips = tips
                         /\ r.p.unsaved = unsaved

\* a forced unload has emptied a partition with commits queued
UnloadWitness ==
    /\ last = [op |-> "unload", res |-> "true"]
    /\ unsaved # <<>>
    /\ states = EmptyMap
    /\ tips = {}

\* C15: create_part with a name of 1 to 16 bytes over an adapter whose
\* snapshot slot 0 is free writes a snapshot to slot 0 and returns a ready
\* partition whose one state is the genesis state (no elements, no parents,
\* zero statesum), which is its one tip, with an empty unsaved queue and
\* ss_num 0; with slot 0 taken it fails with AlreadyExists; a name of no
\* bytes or of more than 16 is rejected before anything is written.
CreateContract ==
    \A name \in Names :
        /\ \A n \in 0 .. 2 : \E r \in {create_part(io, name, ThisPart, n)} :
               /\ Len(name) \notin 1 .. NameLimit =>
                      r.res = "ArgError" /\ r.io = io /\ r.p = <<>>
               /\ (Len(name) \in 1 .. NameLimit /\ 0 \in DOMAIN io) =>
                      r.res = "AlreadyExists" /\ r.p = <<>>
        /\ (Len(name) \in 1 .. NameLimit /\ 0 \notin DOMAIN io) =>
               \E r \in {create_part(io, name, ThisPart, 2)} :
                   /\ r.res = "Ok"
                   /\ 0 \in DOMAIN r.io
                   /\ read_head(r.io[0].ss).res = "Ok"
                   /\ read_snapshot(r.io[0].ss, ThisPart).res = "Ok"
                   /\ Len(r.p) = 1
                   /\ is_ready(r.p[1])
                   /\ DOMAIN r.p[1].states = {ZeroSum}
                   /\ r.p[1].states[ZeroSum].elts = EmptyMap
                   /\ r.p[1].states[ZeroSum].parents = <<>>
                   /\ r.p[1].states[ZeroSum].statesum = ZeroSum
                   /\ r.p[1].tips = {ZeroSum}
                   /\ r.p[1].unsaved = <<>>
                   /\ r.p[1].ss_num = 0

\* a partition has been created under a name of 16 bytes
CreateWitness ==
    /\ last = [op |-> "create", res |-> "Ok"]
    /\ Len(repo_name) = NameLimit
    /\ 0 \in DOMAIN io
    /\ tips = {ZeroSum}
    /\ DOMAIN states = {ZeroSum}

\* C16: for every FileHeader that write_head accepts, read_head on the bytes
\* written succeeds and returns the same file type, name, part_id, remarks
\* and user fields.
HeadRoundTrip ==
    (hdr.written.res = "Ok" /\ hdr.read.res # "") =>
        /\ hdr.read.res = "Ok"
        /\ hdr.read.head.ftype[1] = hdr.header[1].ftype[1]
        /\ hdr.read.head.name = hdr.header[1].name
        /\ hdr.read.head.part_id = hdr.header[1].part_id
        /\ hdr.read.head.remarks = hdr.header[1].remarks
        /\ hdr.read.head.user_fields = hdr.header[1].user_fields

\* a header with a name of 16 bytes, a partition, two remarks of up to 15
\* bytes and a user field of 27 bytes has been written and read back whole
HeadRoundTripWitness ==
    /\ last = [op |-> "read_head", res |-> "Ok"]
    /\ hdr.written.res = "Ok"
    /\ Len(hdr.header[1].name) = NameLimit
    /\ hdr.header[1].part_id # <<>>
    /\ hdr.header[1].remarks = <<RemarkOf(1), RemarkOf(15)>>
    /\ hdr.header[1].user_fields = <<FieldOf(27)>>
    /\ hdr.read.head = [hdr.header[1] EXCEPT !.ftype = hdr.read.head.ftype]
    /\ hdr.read.head.ftype[1] = hdr.header[1].ftype[1]

EltsMovedDisjoint == (DOMAIN work.elts) \cap (DOMAIN work.moved) = {}

\* an element has moved into a state that holds a forwarding record and an
\* element, and the two do not share an id
EltsMovedWitness ==
    /\ last = [op |-> "move_in", res |-> "Ok"]
    /\ DOMAIN work.moved # {}
    /\ DOMAIN work.elts # {}
    /\ (DOMAIN work.elts) \cap (DOMAIN work.moved) = {}

\* C19: in a PartitionState reached through insert, insert_with_id, replace,
\* remove and set_move with any ids, every key of elts and every key of
\* moved has the partition id of the state.
OwnKeysOnly ==
    \A k \in (DOMAIN work.elts) \cup (DOMAIN work.moved) : PartOf(k) = work.part_id

\* insert_with_id has refused an id of another partition, and the state
\* holds an element and a forwarding record under ids of its own
OwnKeysWitness ==
    /\ last = [op |-> "insert_with_id", res |-> "WrongPartition"]
    /\ DOMAIN work.elts # {}
    /\ DOMAIN work.moved # {}
    /\ (DOMAIN work.elts) \cup (DOMAIN work.moved) \subseteq OwnIds

\* C20: insert_with_id(id, e) fails with WrongPartition for an id of another
\* partition, fails with IdClash for an id of the partition that is taken by
\* an element or by a forwarding record, and otherwise adds e under id.
InsertWithIdContract ==
    \A id \in AllIds : \A e \in Elts :
        \E r \in {insert_with_id(work, id, e)} :
            /\ PartOf(id) # work.part_id => r.res = "WrongPartition"
            /\ (/\ PartOf(id) = work.part_id
                /\ id \in (DOMAIN work.elts) \cup (DOMAIN work.moved))
                   => r.res = "IdClash"
            /\ (/\ PartOf(id) = work.part_id
                /\ id \notin (DOMAIN work.elts) \cup (DOMAIN work.moved))
                   => r.res = "Ok" /\ r.state.elts = MapPut(work.elts, id, e)

\* insert_with_id has refused the id of a live element with IdClash
InsertWithIdWitness ==
    /\ last = [op |-> "insert_with_id", res |-> "IdClash"]
    /\ DOMAIN work.elts # {}
    /\ (DOMAIN work.elts) \cap (DOMAIN work.moved) = {}

RECURSIVE LoggedIn(_, _)
\* the commits in the log streams logs, in the order of their numbers
LoggedIn(logs, S) ==
    IF S = {} THEN <<>>
    ELSE The({ ReadCommits(logs[cl], 3) \o LoggedIn(logs, S \ {cl})
               : cl \in {CHOOSE x \in S : \A y \in S : x <= y} })

\* the commits in the logs of snapshot ss
LoggedCommits(f, ss) ==
    IF ss \notin DOMAIN f THEN <<>> ELSE LoggedIn(f[ss].logs, DOMAIN f[ss].logs)

RECURSIVE SumChanges(_, _)
\* the number of edits of the commits of q from the i-th on
SumChanges(q, i) == IF i > Len(q) THEN 0 ELSE Len(q[i].changes) + SumChanges(q, i + 1)

NewestSnapshot(f) ==
    IF \E ss \in DOMAIN f : read_ss(f, ss)
    THEN SetMax({ ss \in DOMAIN f : read_ss(f, ss) })
    ELSE -1

\* C22: after a successful load, with or without all the history, ss_num is
\* ss_len - 1; if the newest snapshot that exists is in a slot below
\* ss_len - 1, the policy has been forced, and a write(false) of the
\* partition, if it is ready, writes a snapshot.
LoadForcesSnapshot ==
    \A a \in BOOLEAN :
        \E r \in {load(Part, io, a)} :
            r.res = "Ok" =>
                /\ r.p.ss_num = ss_len(io) - 1
                /\ (NewestSnapshot(io) >= 0 /\ NewestSnapshot(io) < ss_len(io) - 1) =>
                       /\ r.p.ss_policy.commits >= RequireCommits
                       /\ is_ready(r.p) =>
                              \E w \in {write(r.p, io, FALSE, Len(r.p.unsaved) + 2, 2)} :
                                  /\ w.res = "Ok"
                                  /\ DOMAIN w.io # DOMAIN io

\* a load has succeeded over an adapter whose last slot holds a log and no
\* snapshot, while a lower slot holds one
LoadForcesSnapshotWitness ==
    /\ last = [op |-> "load", res |-> "Ok"]
    /\ NewestSnapshot(io) >= 0
    /\ NewestSnapshot(io) < ss_len(io) - 1
    /\ ss_num = ss_len(io) - 1
    /\ ss_cl_len(io, ss_num) > 0

WriteSnapshotTwoTips ==
    /\ last = [op |-> "write_snapshot", res |-> "MergeRequired"]
    /\ Cardinality(tips) = 2

\* C24: a call of RepoState::locate returns, whatever the forwarding records
\* of the loaded partitions are.
LocateTerminates == (loc.pc = "loop") ~> (loc.pc = "done")

\* a call of locate is under way for an id that forwards to an id of the
\* other partition, which forwards back, and neither names an element
LocateLoopWitness ==
    /\ loc.pc = "loop"
    /\ DOMAIN rstate = {ThisPart, OtherPart}
    /\ loc.id \notin DOMAIN rstate[PartOf(loc.id)].elts
    /\ loc.id \in DOMAIN rstate[PartOf(loc.id)].moved
    /\ \E b \in {rstate[PartOf(loc.id)].moved[loc.id]} :
           /\ b # loc.id
           /\ b \notin DOMAIN rstate[PartOf(b)].elts
           /\ b \in DOMAIN rstate[PartOf(b)].moved
           /\ rstate[PartOf(b)].moved[b] = loc.id

\* a call of locate that has returned Ok names a live element at the end of
\* the chain, one that has returned NotFound stands at an id of a loaded
\* partition that names no element and no forwarding record
LocateAnswer ==
    loc.pc = "done" =>
        /\ loc.res = "Ok" => /\ PartOf(loc.id) \in DOMAIN rstate
                             /\ loc.id \in DOMAIN rstate[PartOf(loc.id)].elts
        /\ loc.res = "NotFound" =>
               /\ PartOf(loc.id) \in DOMAIN rstate
               /\ loc.id \notin DOMAIN rstate[PartOf(loc.id)].elts
               /\ loc.id \notin DOMAIN rstate[PartOf(loc.id)].moved
        /\ loc.res = "NotLoaded" => PartOf(loc.id) \notin DOMAIN rstate

\* C25: state_from_string(P) returns the state whose sum matches the
\* normalised P (upper case, spaces removed) when exactly one state matches,
\* NoMatch when none does, and MultiMatch naming two different matching sums
\* when two or more do, in whatever order the states are visited.
StateFromString ==
    \A string \in MatchStrings(MaxPrefix) :
        \E norm \in {remove_spaces(to_uppercase(string))} :
            \E M \in {{ k \in DOMAIN states :
                          /\ Len(norm) <= 2
                          /\ \A i \in 1 .. Len(norm) : as_string(k)[i] = norm[i] }} :
                /\ 32 \notin { norm[i] : i \in 1 .. Len(norm) }
                /\ 97 \notin { norm[i] : i \in 1 .. Len(norm) }
                /\ Len(norm) = Cardinality({ i \in 1 .. Len(string) : string[i] # 32 })
                /\ Cardinality(M) = 1 =>
                       state_from_string(Part, string)
                           = { [res |-> "Ok", key |-> k, a |-> <<>>, b |-> <<>>] : k \in M }
                /\ M = {} =>
                       state_from_string(Part, string)
                           = { [res |-> "NoMatch", key |-> ZeroSum, a |-> <<>>, b |-> <<>>] }
                /\ Cardinality(M) > 1 =>
                       \A r \in state_from_string(Part, string) :
                           /\ r.res = "MultiMatch"
                           /\ r.a # r.b
                           /\ \E k1, k2 \in M : r.a = as_string(k1) /\ r.b = as_string(k2)

\* a lookup has found several states, one of three, or none at all in a
\* partition of four states
StateFromStringWitness ==
    /\ last.op = "state_from_string"
    /\ last.res = "MultiMatch"
    /\ Cardinality(DOMAIN states) = 4
    /\ \E r \in state_from_string(Part, <<97, 32, 49>>) : r.res = "Ok" /\ r.key = 1
    /\ \E r \in state_from_string(Part, <<97, 48, 48>>) : r.res = "NoMatch"

\* the element X under the e-th id of the partition, inserted into a child
\* of s
ChildWith(s, e) == insert_with_id(clone_child(s), EltIdOf(ThisPart, e - 1), e).state

\* C26: from a partition whose only tip is S, pushing the child S plus X and
\* then the child S plus Y of the same S leaves the two children as tips and
\* merge_required true; merge then pushes one commit whose state has both
\* tips as parents, the elements of S with X and Y, and the sum
\* permute(S.statesum, sum(X), sum(Y)), and leaves that state as the one tip.
MergeOfTwoChildren ==
    \A x, y \in 1 .. EltSpan, solver \in Solvers :
        \E S \in {IF tips = {} THEN NewState(ThisPart) ELSE states[CHOOSE k \in tips : TRUE]} :
            \E p1 \in {push_state(Part, ChildWith(S, x))} :
                \E p2 \in {push_state(p1.p, ChildWith(S, y))} :
                    \E m \in {Permute(Permute(S.statesum, ElementSum(x)), ElementSum(y))} :
                        ( /\ tips = {S.statesum}
                          /\ x # y
                          /\ EltIdOf(ThisPart, x - 1) \notin DOMAIN S.elts
                          /\ EltIdOf(ThisPart, y - 1) \notin DOMAIN S.elts
                          /\ {ChildWith(S, x).statesum, ChildWith(S, y).statesum, m}
                                 \cap DOMAIN states = {} )
                        => /\ p1.res = "true" /\ p2.res = "true"
                           /\ p2.p.tips = {ChildWith(S, x).statesum, ChildWith(S, y).statesum}
                           /\ Cardinality(p2.p.tips) = 2
                           /\ merge_required(p2.p)
                           /\ \A r \in MergeOutcomes(p2.p, solver) :
                                  /\ r.res = "Ok"
                                  /\ r.p.tips = {m}
                                  /\ ~merge_required(r.p)
                                  /\ Len(r.p.unsaved) = Len(p2.p.unsaved) + 1
                                  /\ r.p.unsaved[Len(r.p.unsaved)].statesum = m
                                  /\ SeqToSet(r.p.states[m].parents) = p2.p.tips
                                  /\ Len(r.p.states[m].parents) = 2
                                  /\ r.p.states[m].statesum = m
                                  /\ r.p.states[m].elts =
                                         MapPut(MapPut(S.elts, EltIdOf(ThisPart, x - 1), x),
                                                EltIdOf(ThisPart, y - 1), y)
                                  /\ DOMAIN r.p.states = DOMAIN p2.p.states \cup {m}

\* a merge has joined two children of one state, each with an element of its
\* own, into one tip with both
MergeOfTwoChildrenWitness ==
    /\ last.op = "merge" /\ last.res = "Ok"
    /\ \E m \in tips :
        /\ tips = {m}
        /\ Len(states[m].parents) = 2
        /\ \E S \in DOMAIN states :
            /\ states[states[m].parents[1]].parents = <<S>>
            /\ states[states[m].parents[2]].parents = <<S>>
            /\ \E i, j \in DOMAIN states[m].elts :
                /\ i # j
                /\ DOMAIN states[states[m].parents[1]].elts = DOMAIN states[S].elts \cup {i}
                /\ DOMAIN states[states[m].parents[2]].elts = DOMAIN states[S].elts \cup {j}
                /\ DOMAIN states[m].elts = DOMAIN states[S].elts \cup {i, j}
                /\ i \notin DOMAIN states[S].elts /\ j \notin DOMAIN states[S].elts

\* partition n of the repository holds nothing in memory
Unloaded(parts, n) == parts[n].p.states = EmptyMap /\ parts[n].p.tips = {}

\* unload_all(false) unloads the partitions without unsaved changes and
\* leaves the others as they are
UnloadAllUnloadsClean ==
    [][last'.op = "unload_all(false)" =>
           \A n \in DOMAIN partitions :
               IF partitions[n].p.unsaved = <<>>
               THEN partitions'[n] = [partitions[n] EXCEPT !.p = unload(@, TRUE).p]
               ELSE partitions'[n] = partitions[n]]_vars

\* unload_all(false) returns true if and only if every partition is unloaded
UnloadAllReturn ==
    [][last'.op = "unload_all(false)" =>
           ((last'.res = "true") <=> \A n \in DOMAIN partitions : Unloaded(partitions', n))]_vars

\* C27: Repo::unload_all(false) unloads every partition that has no unsaved
\* changes and leaves the others unchanged, in whatever order the partitions
\* are visited, and returns true if and only if all partitions are unloaded.
UnloadAllContract ==
    [][last'.op = "unload_all(false)" =>
           /\ \A n \in DOMAIN partitions :
                  IF partitions[n].p.unsaved = <<>>
                  THEN partitions'[n] = [partitions[n] EXCEPT !.p = unload(@, TRUE).p]
                  ELSE partitions'[n] = partitions[n]
           /\ (last'.res = "true") <=> \A n \in DOMAIN partitions : Unloaded(partitions', n)]_vars

\* unload_all(false) has returned false and left loaded a partition that has
\* no unsaved changes, beside one that has
UnloadAllWitness ==
    /\ last.op = "unload_all(false)"
    /\ last.res = "false"
    /\ \E n, k \in DOMAIN partitions :
           /\ partitions[n].p.unsaved = <<>> /\ is_loaded(partitions[n].p)
           /\ partitions[k].p.unsaved # <<>> /\ is_loaded(partitions[k].p)

\* C28: Repo::sync returns Ok(true) whenever the push of one of the
\* RepoState's states leaves its partition with more than one tip; the
\* RepoState then has no entry for that partition and holds the current tip
\* of every other loaded partition.
SyncReportsConflict ==
    [][(/\ last'.op = "sync"
        /\ \E n \in DOMAIN rstate :
               /\ partitions'[n].p # partitions[n].p
               /\ merge_required(partitions'[n].p))
       => /\ last'.res = "Ok(true)"
          /\ \A n \in DOMAIN partitions :
                 IF merge_required(partitions'[n].p)
                 THEN n \notin DOMAIN rstate'
                 ELSE is_loaded(partitions'[n].p)
                          => /\ n \in DOMAIN rstate'
                             /\ rstate'[n] = tip(partitions'[n].p).state]_vars

\* a sync has pushed a state beside the tip of a partition and has returned
\* the error of Partition::tip
SyncConflictWitness ==
    /\ last.op = "sync"
    /\ last.res = "MergeRequired"
    /\ \E n \in DOMAIN partitions :
           /\ merge_required(partitions[n].p)
           /\ partitions[n].p.unsaved # <<>>
           /\ n \notin DOMAIN rstate

\* sync never returns Ok(true)
SyncNeverTrue == last.op = "sync" => last.res # "Ok(true)"

\* once every partition is ready and the RepoState holds nothing but tips,
\* sync returns Ok(false) and the RepoState holds the tip of every partition
SyncRestoresAccess ==
    ( /\ \A n \in DOMAIN partitions : is_ready(partitions[n].p)
      /\ \A n \in DOMAIN rstate : rstate[n] = tip(partitions[n].p).state )
    => \A order \in Orders(DOMAIN rstate), fill \in Orders(DOMAIN partitions) :
           /\ sync(partitions, rstate, order, fill).res = "Ok(false)"
           /\ sync(partitions, rstate, order, fill).parts = partitions
           /\ sync(partitions, rstate, order, fill).states
                  = [n \in DOMAIN partitions |-> tip(partitions[n].p).state]

\* C29: a state stored in states under key k is found unchanged under k
\* (elements, moved records, parents) after every later push_state,
\* push_commit, merge, load, write and write_snapshot, and only unload
\* removes it.
StoredStatesImmutable ==
    [][/\ \A k \in DOMAIN states : k \in DOMAIN states' => states'[k] = states[k]
       /\ last'.op # "unload" => DOMAIN states \subseteq DOMAIN states']_vars

\* a load has read the snapshot of a state that the partition holds with
\* its parent, and other states have been stored since the first
StoredStatesWitness ==
    /\ last.op = "load" /\ last.res = "Ok"
    /\ Cardinality(DOMAIN states) > 2
    /\ \E ss \in DOMAIN io :
           /\ read_ss(io, ss)
           /\ read_snapshot(io[ss].ss, ThisPart).res = "Ok"
           /\ read_snapshot(io[ss].ss, ThisPart).state.statesum \in DOMAIN states
           /\ states[read_snapshot(io[ss].ss, ThisPart).state.statesum].parents # <<>>

\* the step is a push that succeeded
PushDone == last'.op \in {"push_state", "push_commit"} /\ last'.res \in {"true", "Ok"}

\* a successful push queues one commit, with child c and parents ps, and
\* sets tips to (tips minus ps) plus {c}, which is not empty; from a ready
\* partition the child of the tip is the one tip afterwards, and a child
\* with a new sum of a state that is not a tip is a second tip
TipsAfterPush ==
    [][PushDone =>
           /\ Len(unsaved') = Len(unsaved) + 1
           /\ \E cm \in {unsaved'[Len(unsaved')]} :
                  /\ tips' = (tips \ SeqToSet(cm.parents)) \cup {cm.statesum}
                  /\ tips' # {}
                  /\ (is_ready(Part) /\ cm.parents[1] \in tips) => tips' = {cm.statesum}
                  /\ ( /\ is_ready(Part)
                       /\ SeqToSet(cm.parents) \cap tips = {}
                       /\ cm.statesum \notin DOMAIN states )
                     => Cardinality(tips') = 2]_vars

\* C30: a successful push_state or push_commit with child c and parents ps
\* sets tips to (tips minus ps) plus {c}; from a ready partition, a child of
\* the tip leaves the child as the one tip, a child of a state that is not a
\* tip leaves two tips, and tips is never empty after a successful push.
TipTransitions ==
    [][PushDone =>
           /\ Len(unsaved') = Len(unsaved) + 1
           /\ \E cm \in {unsaved'[Len(unsaved')]} :
                  /\ tips' = (tips \ SeqToSet(cm.parents)) \cup {cm.statesum}
                  /\ tips' # {}
                  /\ (is_ready(Part) /\ cm.parents[1] \in tips) => tips' = {cm.statesum}
                  /\ (is_ready(Part) /\ SeqToSet(cm.parents) \cap tips = {})
                     => Cardinality(tips') = 2]_vars

\* push_state has taken a second child of a state that is not a tip, with
\* the sum of the tip, and the partition has one tip
TipTransitionsWitness ==
    /\ last.op = "push_state" /\ last.res = "true"
    /\ Cardinality(tips) = 1
    /\ Len(unsaved) >= 2
    /\ \E cm \in {unsaved[Len(unsaved)]}, i \in 1 .. (Len(unsaved) - 1) :
           /\ cm.statesum \in tips
           /\ unsaved[i].statesum = cm.statesum
           /\ SeqToSet(cm.parents) \cap tips = {}

RECURSIVE AncestorsOrSelf(_, _)
\* the keys reached from the keys S along the parent lists of the states
AncestorsOrSelf(sts, S) ==
    IF S \cup UNION { SeqToSet(ParentsOf(sts, k)) : k \in S } = S THEN S
    ELSE AncestorsOrSelf(sts, S \cup UNION { SeqToSet(ParentsOf(sts, k)) : k \in S })

\* some state is its own proper ancestor
ParentCycle(sts) ==
    \E k \in DOMAIN sts : k \in AncestorsOrSelf(sts, SeqToSet(sts[k].parents))

\* C31: latest_common_ancestor(k1, k2) returns, on every parent graph, Ok(k)
\* only for a k that is an ancestor or self of both k1 and k2, and the error
\* exactly when the ancestor sets of k1 and k2 are disjoint.
CommonAncestorFound ==
    \A k1, k2 \in Sums :
        \E r \in {latest_common_ancestor(states, k1, k2)} :
            /\ r.res \in {"Ok", "Err"}
            /\ r.res = "Ok" =>
                   r.key \in AncestorsOrSelf(states, {k1}) \cap AncestorsOrSelf(states, {k2})
            /\ r.res = "Err" <=>
                   AncestorsOrSelf(states, {k1}) \cap AncestorsOrSelf(states, {k2}) = {}

\* a merge has looked for the common ancestor of two tips in a parent graph
\* with a cycle, in which some pairs of keys have one and others none
CommonAncestorWitness ==
    /\ last.op = "merge"
    /\ ParentCycle(states)
    /\ \E k1, k2 \in DOMAIN states :
           /\ k1 # k2
           /\ latest_common_ancestor(states, k1, k2).res = "Ok"
           /\ latest_common_ancestor(states, k1, k2).key \notin {k1, k2}
    /\ \E k1, k2 \in Sums : latest_common_ancestor(states, k1, k2).res = "Err"

\* every parent listed by a state is a key of states
ParentsLoaded(sts) == \A k \in DOMAIN sts : SeqToSet(sts[k].parents) \subseteq DOMAIN sts

\* c is a common ancestor or self of k1 and k2 other than k, and a
\* descendant of k
LaterCommon(sts, k1, k2, k, c) ==
    /\ c # k
    /\ c \in AncestorsOrSelf(sts, {k1}) \cap AncestorsOrSelf(sts, {k2})
    /\ k \in AncestorsOrSelf(sts, {c})

\* C32: the ancestor that latest_common_ancestor(k1, k2) returns is a latest
\* one: no other common ancestor of k1 and k2 is a proper descendant of it,
\* also when k2 or its ancestors have several parents.
CommonAncestorIsLatest ==
    \A k1, k2 \in DOMAIN states :
        (/\ ~ParentCycle(states)
         /\ ParentsLoaded(states)
         /\ latest_common_ancestor(states, k1, k2).res = "Ok")
        => ~\E c \in DOMAIN states :
               LaterCommon(states, k1, k2, latest_common_ancestor(states, k1, k2).key, c)

\* a merge has made a state with two parents, and for it and one of its
\* parents the search returns the genesis state although that parent is a
\* common ancestor
CommonAncestorNotLatestWitness ==
    /\ last.op = "merge" /\ last.res = "Ok"
    /\ ~ParentCycle(states)
    /\ ParentsLoaded(states)
    /\ \E m \in tips :
           /\ Len(states[m].parents) = 2
           /\ \E k1 \in SeqToSet(states[m].parents) :
                  /\ latest_common_ancestor(states, k1, m).res = "Ok"
                  /\ latest_common_ancestor(states, k1, m).key = ZeroSum
                  /\ k1 # ZeroSum

\* C34: whenever latest_common_ancestor returns Ok(k) for the two tips that
\* merge_two picks, k is a key of states, so merge_two finds the two tips and
\* the common ancestor in states and does not panic, also when states list
\* parents that are not loaded.
CommonAncestorIsLoaded ==
    /\ \A t1, t2 \in tips :
           (t1 # t2 /\ latest_common_ancestor(states, t1, t2).res = "Ok")
           => /\ latest_common_ancestor(states, t1, t2).key \in DOMAIN states
              /\ {t1, t2} \subseteq DOMAIN states
    /\ last.op = "merge" => last.res # "Panic"

\* a merge has panicked: the two tips list the same parent that is not
\* loaded, and that key is what latest_common_ancestor returns
CommonAncestorNotLoadedWitness ==
    /\ last.op = "merge" /\ last.res = "Panic"
    /\ \E t1, t2 \in tips :
           /\ t1 # t2
           /\ latest_common_ancestor(states, t1, t2).res = "Ok"
           /\ latest_common_ancestor(states, t1, t2).key \notin DOMAIN states
           /\ latest_common_ancestor(states, t1, t2).key \in SeqToSet(states[t1].parents)

\* the partition after create and two calls of push_commit, each with the
\* genesis state as first parent and the sum 3, which is no state, as second
TwoChildrenOfUnloaded ==
    The({ push_commit(p.p, [parents |-> <<ZeroSum, 3>>, statesum |-> 2,
                            changes |-> <<InsertEdit(NextElt(FirstId), 2)>>])
          : p \in {push_commit(CreatedPart(RepoName, ThisPart),
                               [parents |-> <<ZeroSum, 3>>, statesum |-> 1,
                                changes |-> <<InsertEdit(FirstId, 1)>>])} })

\* both pushes succeed, with new sums, and every merge of the two tips
\* panics
UnloadedParentPanics ==
    /\ TwoChildrenOfUnloaded.res = "Ok"
    /\ TwoChildrenOfUnloaded.p.tips = {1, 2}
    /\ DOMAIN TwoChildrenOfUnloaded.p.states = {0, 1, 2}
    /\ \A solver \in Solvers :
           \A r \in MergeOutcomes(TwoChildrenOfUnloaded.p, solver) : r.res = "Panic"

\* C39: a merge that returns an error (no common ancestor, no commit from
\* the solver, or a failing push) leaves tips, states and unsaved as they
\* were before the call, whatever the number of tips.
FailedMergeKeepsPartition ==
    [][(last'.op = "merge" /\ last'.res \in {"NoCommonAncestor", "MergeFailed", "SumClash",
                                             "NoParent", "PatchApplyFailed"})
       => UNCHANGED <<tips, states, unsaved>>]_vars

\* a merge of three tips has returned an error in its second turn, when the
\* solver gave no commit, after its first turn had pushed the merge of two
\* of the tips: the merge commit is the last of the queue and its state is
\* a tip beside the third one
FailedMergeWitness ==
    /\ last.op = "merge"
    /\ last.res = "MergeFailed"
    /\ Cardinality(tips) = 2
    /\ unsaved # <<>>
    /\ Len(unsaved[Len(unsaved)].parents) = 2
    /\ unsaved[Len(unsaved)].statesum \in tips

\* a block of the header as write_head emits it for a payload of n bytes
\* after the block's marker: an H block of 16 bytes, or a Q block whose
\* length character is one of '1'..'9', 'A'..'Z' and stands for the least
\* number of 16-byte units that hold the marker, the character and the
\* payload
BlockWellFormed(bytes, n) ==
    /\ bytes # <<>>
    /\ bytes[1] \in {72, 81}
    /\ bytes[1] = 72 => Len(bytes) = 16 /\ n <= 15
    /\ bytes[1] = 81 =>
           /\ BlockCount(bytes[2]) \in 1 .. 35
           /\ Len(bytes) = BlockCount(bytes[2]) * 16
           /\ BlockCount(bytes[2]) * 16 >= n + 2
           /\ (BlockCount(bytes[2]) - 1) * 16 < n + 2

\* C33: every block that write_head emits for a remark or a user field it
\* accepts is an H block of exactly 16 bytes or a Q block of exactly x * 16
\* bytes, x the least number of units that fits and its length character one
\* of '1'..'9', 'A'..'Z'.
HeadBlocksAligned ==
    hdr.written.res = "Ok" =>
        /\ \A i \in 1 .. Len(hdr.header[1].remarks) :
               BlockWellFormed(RemarkBlock(hdr.header[1].remarks[i]).bytes,
                               Len(hdr.header[1].remarks[i]))
        /\ \A i \in 1 .. Len(hdr.header[1].user_fields) :
               BlockWellFormed(UserBlock(hdr.header[1].user_fields[i]).bytes,
                               Len(hdr.header[1].user_fields[i]) + 1)

\* write_head has accepted a header with a remark of 16 bytes and has
\* written a Q block of 36 bytes for it, under the length character '2'
HeadBlocksWitness ==
    /\ last = [op |-> "write_head", res |-> "Ok"]
    /\ hdr.header[1].remarks = <<RemarkOf(16)>>
    /\ hdr.header[1].user_fields = <<>>
    /\ RemarkBlock(RemarkOf(16)).bytes[2] = 50
    /\ Len(RemarkBlock(RemarkOf(16)).bytes) = 36
    /\ Len(hdr.written.bytes) % 16 = 4

\* the user fields alone: every block is well formed but that of a field of
\* 558 to 573 bytes, whose length character is '['
UserBlocksAligned ==
    hdr.written.res = "Ok" =>
        \A i \in 1 .. Len(hdr.header[1].user_fields) :
            \/ BlockWellFormed(UserBlock(hdr.header[1].user_fields[i]).bytes,
                               Len(hdr.header[1].user_fields[i]) + 1)
            \/ /\ Len(hdr.header[1].user_fields[i]) >= 558
               /\ UserBlock(hdr.header[1].user_fields[i]).bytes[2] = 91
               /\ Len(UserBlock(hdr.header[1].user_fields[i]).bytes) = 36 * 16

\* C36: insert_with_id returning WrongPartition or IdClash, and replace or
\* remove returning NotFound, leave elts, moved and the statesum of the state
\* as they were before the call.
FailedEditKeepsState ==
    [][((last'.op = "insert_with_id" /\ last'.res \in {"WrongPartition", "IdClash"})
          \/ (last'.op \in {"replace", "remove"} /\ last'.res = "NotFound"))
       => /\ work'.elts = work.elts
          /\ work'.moved = work.moved
          /\ work'.statesum = work.statesum]_vars

\* replace has returned NotFound and the state holds one element: the one
\* that the call was to put in place of an absent one
FailedEditWitness ==
    /\ last = [op |-> "replace", res |-> "NotFound"]
    /\ Cardinality(DOMAIN work.elts) = 1
    /\ work.statesum # ZeroSum
    /\ work.parents = <<>>

\* the failures of insert_with_id and of remove alone leave the state as it
\* was
FailedInsertRemoveKeepState ==
    [][((last'.op = "insert_with_id" /\ last'.res \in {"WrongPartition", "IdClash"})
          \/ (last'.op = "remove" /\ last'.res = "NotFound"))
       => work' = work]_vars

\* C35: RepoState::replace that returns an error has changed no partition
\* state of the RepoState; in particular a replacement classified into
\* another partition, for an id that is not live in its source partition,
\* has not been inserted into the target partition.
RepoReplaceAllOrNothing ==
    [][(last'.op = "rs_replace" /\ last'.res # "Ok") => rstate' = rstate]_vars

\* replace has returned NotFound with both partitions loaded: the source
\* partition holds no element and notes no move, the target partition holds
\* one element
RepoReplaceWitness ==
    /\ last = [op |-> "rs_replace", res |-> "NotFound"]
    /\ DOMAIN rstate = {ThisPart, OtherPart}
    /\ rstate[ThisPart].elts = EmptyMap
    /\ rstate[ThisPart].moved = EmptyMap
    /\ Cardinality(DOMAIN rstate[OtherPart].elts) = 1

\* a replace that moves the element to another partition and returns an
\* error has changed the RepoState only when the error is NotFound: the
\* source state is as it was and the target state holds one element more
MoveFailureInserts ==
    \A id \in RepoIds, e \in Elts, r \in Randoms :
        \E x \in {RepoState_replace_rc(rstate, id, e, r)} :
            (x.res # "Ok" /\ classify(e) # PartOf(id) /\ x.states # rstate) =>
                /\ x.res = "NotFound"
                /\ id \notin DOMAIN rstate[PartOf(id)].elts
                /\ x.states[PartOf(id)] = rstate[PartOf(id)]
                /\ Cardinality(DOMAIN x.states[classify(e)].elts)
                     = Cardinality(DOMAIN rstate[classify(e)].elts) + 1

\* every snapshot stream and every log stream of a is in b with the same
\* content
FilesKept(a, b) ==
    \A ss \in DOMAIN a :
        /\ ss \in DOMAIN b
        /\ b[ss].ss = a[ss].ss
        /\ \A cl \in DOMAIN a[ss].logs :
               cl \in DOMAIN b[ss].logs /\ b[ss].logs[cl] = a[ss].logs[cl]

\* the log streams of b that a has not, as <<snapshot number, log number>>
LogsMade(a, b) ==
    { x \in (DOMAIN b) \X (0 .. (MaxCl + MaxLogs + 1)) :
          /\ x[2] \in DOMAIN b[x[1]].logs
          /\ x[1] \notin DOMAIN a \/ x[2] \notin DOMAIN a[x[1]].logs }

\* cl is the first number from ss_cl_len upward that no log of the slot has
FirstFreeLog(a, ss, cl) ==
    /\ cl >= ss_cl_len(a, ss)
    /\ \A c \in ss_cl_len(a, ss) .. cl :
           (ss \in DOMAIN a /\ c \in DOMAIN a[ss].logs) <=> c < cl

\* the numbers from n up to some number above ProbeLimit are all taken
ProbeBlocked(used, n) ==
    \E c \in used : c > ProbeLimit /\ c >= n /\ \A d \in n .. c : d \in used

SnapshotAfterCommits ==
    \A fast \in BOOLEAN, n \in 0 .. (Len(unsaved) + 2), m \in 0 .. 2 :
        \E r \in {write(Part, io, fast, n, m)} :
            /\ r.res = "Ok" => r.p.unsaved = <<>>
            /\ (DOMAIN r.io # DOMAIN io) =>
                   /\ ~fast
                   /\ r.p.unsaved = <<>>
                   /\ unsaved # <<>> =>
                          \E cl \in (DOMAIN r.io[ss_num].logs) \ (DOMAIN io[ss_num].logs) :
                              LogCommits(r.io[ss_num].logs[cl]) = unsaved
                   /\ \A ss \in (DOMAIN r.io) \ (DOMAIN io) : r.io[ss].logs = EmptyMap
            /\ (unsaved # <<>> /\ n < Len(unsaved) + 2) =>
                   /\ r.res # "Ok"
                   /\ DOMAIN r.io = DOMAIN io
                   /\ r.p.ss_num = ss_num
                   /\ r.p.ss_policy = ss_policy

\* a write(false) has logged the queued commit behind snapshot 0 and then
\* written snapshot 1, which holds the state of that commit
SnapshotAfterCommitsWitness ==
    /\ last = [op |-> "write", res |-> "Ok"]
    /\ ss_num = 1
    /\ unsaved = <<>>
    /\ io[1].logs = EmptyMap
    /\ ~TornSs(io[1].ss)
    /\ ss_cl_len(io, 0) >= 1
    /\ \E f \in {io[0].logs[ss_cl_len(io, 0) - 1]} :
           /\ Len(LogCommits(f)) = 1
           /\ LogCommits(f)[1].statesum = io[1].ss[2].val.statesum

====
